---- MODULE Spec2Model ----
(***************************************************************************)
(* State-machine model of the clicker-game engine core: the resource       *)
(* ledger (ResourcesStore), the operation scheduler (OperationsStore) and  *)
(* the persistence coordinator (SyncStore), with the stores they call.     *)
(*                                                                         *)
(* JavaScript numbers that may be fractional (multipliers, amounts passed  *)
(* to the public API) are exact rationals [n, d] with d > 0.  Timestamps   *)
(* are integers in milliseconds; the catalogs below keep every computed    *)
(* duration a whole number of milliseconds.                                *)
(***************************************************************************)
EXTENDS Integers, Sequences, FiniteSets, TLC

(***************************************************************************)
(* Bounds of the model.                                                    *)
(***************************************************************************)
\* the clock starts here (Date.now() of the first call) ...
StartTime == 10000
\* ... and advances in steps of ClockStep ms, at most MaxClockSteps times
ClockStep == 500
MaxClockSteps == 3
\* no counter is pushed above this by the calls the model enumerates
MaxResource == 12
MaxNow == StartTime + MaxClockSteps * ClockStep
\* the cap of a counter when the ledger is called with arbitrary amounts
MaxLedger == 2
\* the clock steps of the life of one operation
MaxLifeSteps == 7
\* how many save intervals the clock may be let run
MaxWaits == 2
\* no counter is pushed above this by the rounds the model enumerates
MaxProduced == 16
\* the clock steps over which rounds are followed
MaxRoundSteps == 4
\* how many workers are handed out
MaxWorkers == 1
\* how many bonuses are active at once when multipliers are composed
MaxBonuses == 3
\* how many times one operation is claimed
MaxClaims == 3
\* how many rounds the game loop is followed for
MaxRounds == 3
\* how many timers of the game loop are pending at once
MaxLoops == 2
LifeEnd == StartTime + MaxLifeSteps * ClockStep

(***************************************************************************)
(* Rationals.                                                              *)
(***************************************************************************)
R(a, b) == [n |-> a, d |-> b]
I(k) == R(k, 1)
RMul(x, y) == R(x.n * y.n, x.d * y.d)
RInv(x) == R(x.d, x.n)                       \* x > 0
RLess(x, y) == x.n * y.d < y.n * x.d
RLeq(x, y) == x.n * y.d <= y.n * x.d
REq(x, y) == x.n * y.d = y.n * x.d
RMax(x, y) == IF RLess(x, y) THEN y ELSE x
RAdd(x, y) == R(x.n * y.d + y.n * x.d, x.d * y.d)
RECURSIVE Gcd(_, _)
Gcd(a, b) == IF b = 0 THEN a ELSE Gcd(b, a % b)
\* the same number in lowest terms (x >= 0)
RNorm(x) == LET g == Gcd(x.n, x.d) IN R(x.n \div g, x.d \div g)
\* Math.ceil
Ceil(x) == -((-x.n) \div x.d)
RIsInt(x) == x.n % x.d = 0
RECURSIVE RPow(_, _)
\* Math.pow(x, k) for a level k >= 0
RPow(x, k) == IF k = 0 THEN I(1) ELSE RMul(x, RPow(x, k - 1))

(***************************************************************************)
(* The numbers above are exact.  Where the rounding of the arithmetic of   *)
(* the engine matters, a number is an IEEE 754 binary64 value: zero, or    *)
(* m * 2^e with 2^52 <= m < 2^53, m held as four limbs of 14 bits, the     *)
(* least significant first.  Naturals of any size are sequences of limbs.  *)
(***************************************************************************)
Limb == 16384

RECURSIVE Pow2(_)
Pow2(k) == IF k = 0 THEN 1 ELSE 2 * Pow2(k - 1)

Zeros(n) == [i \in 1..n |-> 0]
\* a padded with zero limbs to n limbs
Padded(a, n) == a \o Zeros(n - Len(a))

RECURSIVE MulCarry(_, _, _)
\* a * k + c for a limb k: one limb more than a
MulCarry(a, k, c) ==
    IF a = << >> THEN << c >>
    ELSE LET v == Head(a) * k + c
         IN  << v % Limb >> \o MulCarry(Tail(a), k, v \div Limb)

RECURSIVE AddCarry(_, _, _)
\* a + b + c for a and b of one length, which the sum fits
AddCarry(a, b, c) ==
    IF a = << >> THEN << >>
    ELSE LET v == Head(a) + Head(b) + c
         IN  << v % Limb >> \o AddCarry(Tail(a), Tail(b), v \div Limb)

RECURSIVE BigMul(_, _)
\* a * b, in Len(a) + Len(b) limbs
BigMul(a, b) ==
    IF b = << >> THEN Zeros(Len(a))
    ELSE AddCarry(Padded(MulCarry(a, Head(b), 0), Len(a) + Len(b)),
                  << 0 >> \o BigMul(a, Tail(b)), 0)

RECURSIVE DivRem(_, _)
\* quotient and remainder of a by d, 0 < d < Limb
DivRem(a, d) ==
    IF a = << >> THEN [q |-> << >>, r |-> 0]
    ELSE LET hi == DivRem(Tail(a), d)
             v == hi.r * Limb + Head(a)
         IN  [q |-> << v \div d >> \o hi.q, r |-> v % d]

\* a / 2^shift rounded to nearest, ties to even, for shift = 14 s + t, t > 0
RoundShift(a, shift) ==
    LET s == shift \div 14
        t == shift % 14
        hi == DivRem(SubSeq(a, s + 1, Len(a)), Pow2(t))
        sticky == \E i \in 1..s : a[i] # 0
        half == Pow2(t - 1)
        up == \/ hi.r > half
              \/ hi.r = half /\ (sticky \/ hi.q[1] % 2 = 1)
    IN  IF up THEN AddCarry(hi.q, Zeros(Len(hi.q)), 1) ELSE hi.q

F64Zero == [zero |-> TRUE, m |-> Zeros(4), e |-> 0]
\* the binary64 value of the significand q (five limbs, 2^52 <= q <= 2^53)
\* and exponent e
F64Pack(q, e) ==
    IF q[4] = 2048
    THEN [zero |-> FALSE, m |-> << 0, 0, 0, 1024 >>, e |-> e + 1]
    ELSE [zero |-> FALSE, m |-> SubSeq(q, 1, 4), e |-> e]

\* the binary64 product x * y (no overflow or underflow in the range used)
F64Mul(x, y) ==
    IF x.zero \/ y.zero THEN F64Zero
    ELSE LET product == BigMul(x.m, y.m)
             shift == IF product[8] >= 128 THEN 53 ELSE 52
         IN  F64Pack(RoundShift(product, shift), x.e + y.e + shift)

RECURSIVE Log2(_, _)
\* the largest i with d * 2^i <= n, for 0 < d <= n
Log2(n, d) == IF 2 * d > n THEN 0 ELSE 1 + Log2(n, 2 * d)

\* the binary64 value nearest to the rational n/d, n and d below 2^14: what
\* a decimal literal of the content parses to
F64Of(x) ==
    IF x.n = 0 THEN F64Zero
    ELSE LET \* 2^52 <= n * 2^k / d < 2^53
             k == IF x.n >= x.d THEN 52 - Log2(x.n, x.d)
                  ELSE 52 + Log2(x.d - 1, x.n) + 1
             scaled == Padded(Zeros(k \div 14) \o MulCarry(<< x.n >>, Pow2(k % 14), 0), 7)
             quot == DivRem(scaled, x.d)
             up == \/ 2 * quot.r > x.d
                   \/ 2 * quot.r = x.d /\ quot.q[1] % 2 = 1
             q == SubSeq(quot.q, 1, 5)
         IN  F64Pack(IF up THEN AddCarry(q, Zeros(5), 1) ELSE q, -k)

\* whether the product x * y is rounded, that is, is not the exact product
F64MulRounds(x, y) ==
    /\ ~x.zero
    /\ ~y.zero
    /\ LET product == BigMul(x.m, y.m)
           shift == IF product[8] >= 128 THEN 53 ELSE 52
       IN  \/ \E i \in 1..3 : product[i] # 0
           \/ DivRem(SubSeq(product, 4, 8), Pow2(shift % 14)).r # 0

RECURSIVE F64Product(_)
\* the product of a sequence of binary64 values, left to right from 1.0
F64Product(q) ==
    IF q = << >> THEN F64Of(I(1))
    ELSE F64Mul(F64Product(SubSeq(q, 1, Len(q) - 1)), q[Len(q)])

RECURSIVE F64ProductRounds(_)
\* whether a multiplication of that product is rounded
F64ProductRounds(q) ==
    /\ q # << >>
    /\ LET front == SubSeq(q, 1, Len(q) - 1)
       IN  F64ProductRounds(front) \/ F64MulRounds(F64Product(front), q[Len(q)])

\* z.int().nonnegative(): the value parses iff it is an integer >= 0
nonNegativeIntegerSchema(x) == RIsInt(x) /\ x.n >= 0
\* z.number().nonnegative()
nonNegativeNumberSchema(x) == x.n >= 0

(***************************************************************************)
(* shared.ts                                                               *)
(***************************************************************************)
RESOURCES == <<"energy", "output", "reputation", "money">>
Resource == {RESOURCES[i] : i \in 1..Len(RESOURCES)}

gainMultipliers ==
    {"energyGain", "outputGain", "operationCostReduction", "reputationGain",
     "moneyGain", "workersEfficiency", "operationDurationReduction",
     "offlineEfficiency", "workerCostReduction"}

createMultipliersMap(initialValue) == [k \in gainMultipliers |-> initialValue]

STORES_TO_SYNC ==
    <<"resources", "workers", "operations", "codex", "level", "achievements",
      "upgrades", "prestige">>
StoreName == {STORES_TO_SYNC[i] : i \in 1..Len(STORES_TO_SYNC)}

(***************************************************************************)
(* ConfigStore                                                             *)
(***************************************************************************)
gameVersion == "0.0.0"
localSaveInterval == 5000
gameRoundInterval == 1000
maxOfflineTime == 8 * 60 * 60 * 1000
\* offlineMultiplier = 0.5
offlineMultiplier == R(1, 2)
baseEnergyProduction == 1
baseOutputProduction == 1
\* moneyPerReputation = 0.3
moneyPerReputation == R(3, 10)
\* operationScaleFactor, in tenths
operationScaleFactor ==
    [common |-> R(12, 10), uncommon |-> R(14, 10), rare |-> R(16, 10),
     epic |-> R(18, 10), legendary |-> R(20, 10)]
\* the floor of a reduction multiplier: Math.max(x, 0.001)
ReductionFloor == R(1, 1000)

(***************************************************************************)
(* Content (external, validated input): a small catalog.                   *)
(***************************************************************************)
NoBonus == [type |-> "none"]

\* the timed bonus granted by SURVEY: operation costs halve for one second
SurveyBonus ==
    [type |-> "multiplier", target |-> "operationCostReduction",
     value |-> R(2, 1), duration |-> 1]

\* the timed bonus granted by DRIFT: no energy is produced for one second
DriftBonus ==
    [type |-> "multiplier", target |-> "energyGain", value |-> I(0), duration |-> 1]

\* the timed bonus granted by SALVAGE: reputation rewards double for a second
SalvageBonus ==
    [type |-> "multiplier", target |-> "reputationGain", value |-> R(2, 1),
     duration |-> 1]

Operations ==
    [survey |->
        [id |-> "survey", rarity |-> "common", duration |-> 1, cooldown |-> 1,
         cost |-> [output |-> 10, energy |-> 5],
         rewards |-> [reputation |-> 1, output |-> 0, money |-> 2,
                      bonus |-> SurveyBonus],
         articlesUnlocks |-> << [level |-> 1, id |-> "a1"] >>],
     dive |->
        [id |-> "dive", rarity |-> "uncommon", duration |-> 2, cooldown |-> 0,
         cost |-> [energy |-> 5],
         rewards |-> [reputation |-> 0, output |-> 3, money |-> 0,
                      bonus |-> NoBonus],
         articlesUnlocks |-> << >>],
     trawl |->
        [id |-> "trawl", rarity |-> "common", duration |-> 1, cooldown |-> 2,
         cost |-> [energy |-> 5],
         rewards |-> [reputation |-> 1, output |-> 0, money |-> 0,
                      bonus |-> NoBonus],
         articlesUnlocks |-> << >>],
     drift |->
        [id |-> "drift", rarity |-> "common", duration |-> 1, cooldown |-> 0,
         cost |-> [energy |-> 5],
         rewards |-> [reputation |-> 0, output |-> 0, money |-> 0,
                      bonus |-> DriftBonus],
         articlesUnlocks |-> << >>],
     flash |->
        [id |-> "flash", rarity |-> "common", duration |-> 0, cooldown |-> 1,
         cost |-> [energy |-> 5],
         rewards |-> [reputation |-> 1, output |-> 2, money |-> 0,
                      bonus |-> NoBonus],
         articlesUnlocks |-> << [level |-> 1, id |-> "a1"] >>],
     salvage |->
        [id |-> "salvage", rarity |-> "common", duration |-> 1, cooldown |-> 0,
         cost |-> [energy |-> 5],
         rewards |-> [reputation |-> 1, output |-> 0, money |-> 1,
                      bonus |-> SalvageBonus],
         articlesUnlocks |-> << [level |-> 1, id |-> "a1"], [level |-> 3, id |-> "lost"] >>]]

OperationIds == DOMAIN Operations

\* WorkersStore.workers: one worker
Workers ==
    [diver |-> [id |-> "diver", production |-> [energy |-> 2, output |-> 4]]]

\* CodexStore.articles
Articles == {"a1"}

\* LevelStore.levels: the starting level and one that a finished operation
\* opens
Levels ==
    << [id |-> "shore", unlockCost |-> [unlockedArticles |-> {}, operationsCompleted |-> 0]],
       [id |-> "reef", unlockCost |-> [unlockedArticles |-> {}, operationsCompleted |-> 1]] >>

\* UpgradesStore.upgrades: one upgrade, halving operation durations
Upgrades ==
    [fastBoat |->
        [id |-> "fastBoat", cost |-> [energy |-> 5], costMultiplier |-> R(2, 1),
         effect |-> << [type |-> "operationDurationReduction", value |-> R(2, 1)] >>,
         maxLevel |-> 1]]

\* AchievementsStore.achievements and PrestigeStore.upgrades: id -> reward
Achievements ==
    [firstOp |-> [id |-> "firstOp",
                  condition |-> [type |-> "operationsCompleted", count |-> 1],
                  reward |-> [type |-> "multiplier", target |-> "reputationGain",
                              value |-> R(2, 1)]]]
PrestigeUpgrades ==
    [legacy |-> [id |-> "legacy",
                 effects |-> << [type |-> "multiplier", target |-> "moneyGain",
                                 value |-> R(3, 2)] >>]]

VARIABLES
    now,                 \* Date.now()
    resources,           \* ResourcesStore: energy, output, reputation, money
    hiredWorkers,        \* WorkersStore.hiredWorkers
    operationsFinished,  \* OperationsStore.operationsFinished
    operationsProgress,  \* OperationsStore.operationsProgress
    activeBonuses,       \* OperationsStore.activeBonuses
    tick,                \* OperationsStore.tick
    timeoutId,           \* OperationsStore.timeoutId (0: undefined)
    timeouts,            \* the pending wake timers of the host, by firing time
    unlockedArticles,    \* CodexStore.unlockedArticles
    level,               \* LevelStore: currentLevel, maxLevelReached
    unlockedUpgrades,    \* UpgradesStore.unlockedUpgrades
    achievements,        \* AchievementsStore: tallies and unlockedAchievements
    prestige,            \* PrestigeStore: points and purchasedUpgrades
    totalPlaytimeSeconds, \* PrestigeStore.totalPlaytimeSeconds
    running,             \* GameStore.running
    loopTimers,          \* the pending timers of GameStore.loop, by firing time
    syncState,           \* SyncStore.state
    lastSave,            \* SyncStore.lastSave
    dirty,               \* SyncStore.dirty
    storage,             \* localStorage[SAVE_KEY]
    flows,               \* suspended save()/load() generators
    result               \* outcome of the latest public call

vars ==
    <<now, resources, hiredWorkers, operationsFinished, operationsProgress,
      activeBonuses, tick, timeoutId, timeouts, unlockedArticles, level,
      unlockedUpgrades, achievements, prestige, totalPlaytimeSeconds, running,
      loopTimers, syncState, lastSave, dirty, storage, flows, result>>

(***************************************************************************)
(* The in-memory aggregate (RootStore) as one record, so that a handler    *)
(* that calls other handlers is the composition of their effects.  A       *)
(* handler yields an outcome: the aggregate it leaves, what it returned    *)
(* and the error it threw ("" when it returned normally).                  *)
(***************************************************************************)
Cur ==
    [resources |-> resources, hiredWorkers |-> hiredWorkers,
     operationsFinished |-> operationsFinished,
     operationsProgress |-> operationsProgress,
     activeBonuses |-> activeBonuses, tick |-> tick, timeoutId |-> timeoutId,
     timeouts |-> timeouts, unlockedArticles |-> unlockedArticles,
     level |-> level, unlockedUpgrades |-> unlockedUpgrades,
     achievements |-> achievements, prestige |-> prestige,
     totalPlaytimeSeconds |-> totalPlaytimeSeconds, running |-> running,
     loopTimers |-> loopTimers,
     syncState |-> syncState, lastSave |-> lastSave, dirty |-> dirty,
     storage |-> storage, flows |-> flows]

\* what a call returns: undefined, a boolean or a number
Undefined == [type |-> "undefined"]
\* the promise of a flow that is suspended at its yield
Pending == [type |-> "pending"]
BoolV(b) == [type |-> "boolean", b |-> b]
NumV(q) == [type |-> "number", q |-> q]
True == BoolV(TRUE)
False == BoolV(FALSE)
\* info: the number an error message carries (0 when it carries none);
\* log: what the call wrote with console.error
Out(s, ret, err, info, log) ==
    [s |-> s, ret |-> ret, err |-> err, info |-> info, log |-> log]
Returns(s, ret) == Out(s, ret, "", 0, "")
Throws(s, err) == Out(s, Undefined, err, 0, "")
Logged(s, log) == Out(s, Undefined, "", 0, log)

\* f with key k set to v, k being a key of f or not (obj[k] = v)
Put(f, k, v) == [x \in DOMAIN f \cup {k} |-> IF x = k THEN v ELSE f[x]]
\* obj[k] ?? dflt
Get(f, k, dflt) == IF k \in DOMAIN f THEN f[k] ELSE dflt
EmptyMap == [x \in {} |-> 0]

RECURSIVE RProduct(_)
\* the product of a sequence of rationals, left to right from 1.0
RProduct(q) == IF q = << >> THEN I(1) ELSE RMul(RProduct(SubSeq(q, 1, Len(q) - 1)), q[Len(q)])

RECURSIVE SetToSeq(_)
\* Array.from(set)
SetToSeq(S) ==
    IF S = {} THEN << >>
    ELSE LET x == CHOOSE y \in S : TRUE IN <<x>> \o SetToSeq(S \ {x})
SeqToSet(q) == {q[i] : i \in 1..Len(q)}

(***************************************************************************)
(* SyncStore.markDirty                                                     *)
(***************************************************************************)
markDirty(s, store) == [s EXCEPT !.dirty = @ \cup {store}]

(***************************************************************************)
(* Multiplier sources                                                      *)
(***************************************************************************)
\* AchievementsStore.multipliers
achievementsMultipliers(s) ==
    [k \in gainMultipliers |->
        RProduct([i \in 1..Len(SetToSeq(s.achievements.unlockedAchievements)) |->
            LET id == SetToSeq(s.achievements.unlockedAchievements)[i] IN
            IF id \in DOMAIN Achievements
               /\ Achievements[id].reward.type = "multiplier"
               /\ Achievements[id].reward.target = k
            THEN Achievements[id].reward.value ELSE I(1)])]

\* the factor one catalog entry with a list of effects contributes to key k
\* (keys[i]: the key effect i multiplies)
EffectsFactor(effects, keys, k, levels) ==
    RProduct([i \in 1..Len(effects) |->
        IF keys[i] = k THEN RPow(effects[i].value, levels) ELSE I(1)])

UpgradeEffectKey(e) == e.type
PrestigeEffectKey(e) == IF e.type = "multiplier" THEN e.target ELSE "none"

\* UpgradesStore.multipliers
upgradesMultipliers(s) ==
    [k \in gainMultipliers |->
        RProduct([i \in 1..Len(SetToSeq(DOMAIN s.unlockedUpgrades)) |->
            LET id == SetToSeq(DOMAIN s.unlockedUpgrades)[i] IN
            IF id \in DOMAIN Upgrades
            THEN EffectsFactor(Upgrades[id].effect,
                               [j \in 1..Len(Upgrades[id].effect) |->
                                   UpgradeEffectKey(Upgrades[id].effect[j])],
                               k, s.unlockedUpgrades[id])
            ELSE I(1)])]

\* PrestigeStore.multipliers
prestigeMultipliers(s) ==
    [k \in gainMultipliers |->
        RProduct([i \in 1..Len(SetToSeq(DOMAIN s.prestige.purchasedUpgrades)) |->
            LET id == SetToSeq(DOMAIN s.prestige.purchasedUpgrades)[i] IN
            IF s.prestige.purchasedUpgrades[id] > 0 /\ id \in DOMAIN PrestigeUpgrades
            THEN EffectsFactor(PrestigeUpgrades[id].effects,
                               [j \in 1..Len(PrestigeUpgrades[id].effects) |->
                                   PrestigeEffectKey(PrestigeUpgrades[id].effects[j])],
                               k, s.prestige.purchasedUpgrades[id])
            ELSE I(1)])]

\* a faulty map in which a later bonus replaces the earlier ones of its key
operationsMultipliersLastWins(s) ==
    [k \in gainMultipliers |->
        LET hits == SelectSeq(s.activeBonuses,
                              LAMBDA ab : ab.bonus.type = "multiplier"
                                          /\ ab.bonus.target = k)
        IN  IF hits = << >> THEN I(1) ELSE hits[Len(hits)].bonus.value]

\* OperationsStore.multipliers: every bonus on the list stacks, by multiplication
operationsMultipliers(s) ==
    [k \in gainMultipliers |->
        RProduct([i \in 1..Len(s.activeBonuses) |->
            IF s.activeBonuses[i].bonus.type = "multiplier"
               /\ s.activeBonuses[i].bonus.target = k
            THEN s.activeBonuses[i].bonus.value ELSE I(1)])]

\* ResourcesStore.getMultipliers (the factors are non-negative, so the parse passes)
getMultipliers(s, key) ==
    RMul(RMul(RMul(achievementsMultipliers(s)[key], upgradesMultipliers(s)[key]),
              prestigeMultipliers(s)[key]),
         operationsMultipliers(s)[key])

\* OperationsStore.multipliers of a list of bonuses, in the arithmetic of the
\* engine: map.set(target, current * value) for each bonus in list order
operationsMultipliersF64(bonuses) ==
    [k \in gainMultipliers |->
        F64Product([i \in 1..Len(bonuses) |->
            IF bonuses[i].bonus.type = "multiplier" /\ bonuses[i].bonus.target = k
            THEN F64Of(RNorm(bonuses[i].bonus.value)) ELSE F64Of(I(1))])]

\* the four factors of getMultipliers in the arithmetic of the engine.  The
\* catalog gives each of the first three sources at most one entry for a
\* key, at level one at most, so the factor is the literal of that entry
SourceFactorsF64(s, key) ==
    << F64Of(RNorm(achievementsMultipliers(s)[key])),
       F64Of(RNorm(upgradesMultipliers(s)[key])),
       F64Of(RNorm(prestigeMultipliers(s)[key])),
       operationsMultipliersF64(s.activeBonuses)[key] >>

\* ResourcesStore.getMultipliers in the arithmetic of the engine
getMultipliersF64(s, key) ==
    LET f == SourceFactorsF64(s, key)
    IN  F64Mul(F64Mul(F64Mul(f[1], f[2]), f[3]), f[4])

(***************************************************************************)
(* ResourcesStore                                                          *)
(***************************************************************************)
\* AchievementsStore.addResourceTotals: the running totals feed achievement
\* conditions only and are not followed; the call marks the tracker dirty
addResourceTotals(s, key, amount) == markDirty(s, "achievements")

\* ResourcesStore.addResource(resource, amount)
addResource(s, resource, amount) ==
    IF ~nonNegativeIntegerSchema(amount)
    THEN Throws(s, "validation")
    ELSE Returns(
            addResourceTotals(
                markDirty([s EXCEPT !.resources[resource] = @ + amount.n \div amount.d],
                          "resources"),
                resource, amount),
            Undefined)

\* a faulty spendResource that deducts without comparing with the balance
spendResourceUnchecked(s, resource, amount) ==
    IF ~nonNegativeIntegerSchema(amount)
    THEN Throws(s, "validation")
    ELSE Returns(markDirty([s EXCEPT !.resources[resource] = @ - amount.n \div amount.d],
                           "resources"),
                 True)

\* a faulty spendResource that refuses an amount equal to the balance
spendResourceStrict(s, resource, amount) ==
    IF RLess(amount, I(s.resources[resource]))
    THEN IF ~nonNegativeIntegerSchema(amount)
         THEN Throws(s, "validation")
         ELSE Returns(markDirty([s EXCEPT !.resources[resource] = @ - amount.n \div amount.d],
                                "resources"),
                      True)
    ELSE Returns(s, False)

\* ResourcesStore.spendResource(resource, amount)
spendResource(s, resource, amount) ==
    IF RLeq(amount, I(s.resources[resource]))
    THEN IF ~nonNegativeIntegerSchema(amount)
         THEN Throws(s, "validation")
         ELSE Returns(markDirty([s EXCEPT !.resources[resource] = @ - amount.n \div amount.d],
                                "resources"),
                      True)
    ELSE Returns(s, False)

\* faulty required amounts, rounded down instead of up
RequiredAmountsFloor(cost, multiplier) ==
    [r \in DOMAIN cost |->
        (cost[r].n * multiplier.n) \div (cost[r].d * multiplier.d)]

\* the rounded amounts spendResourcesByCost requires: Math.ceil(v * multiplier)
RequiredAmounts(cost, multiplier) ==
    [r \in DOMAIN cost |-> Ceil(RMul(cost[r], multiplier))]

\* the keys of a cost map in the order its entries are visited
CostKeys(cost) == SelectSeq(RESOURCES, LAMBDA r : r \in DOMAIN cost)

RECURSIVE Deduct(_, _, _)
\* the deduction loop over the keys left: a negative amount fails to parse
\* and throws, the deductions already made staying
Deduct(s, required, keys) ==
    IF keys = << >> THEN Returns(s, True)
    ELSE IF required[Head(keys)] < 0 THEN Throws(s, "validation")
    ELSE Deduct([s EXCEPT !.resources[Head(keys)] = @ - required[Head(keys)]],
                required, Tail(keys))

\* ResourcesStore.spendResourcesByCost(cost, multiplier)
spendResourcesByCost(s, cost, multiplier) ==
    LET required == RequiredAmounts(cost, multiplier)
        paid == Deduct(s, required, CostKeys(cost))
    IN  IF \E r \in DOMAIN cost : s.resources[r] < required[r]
        THEN Returns(s, False)
        ELSE IF paid.err # "" THEN paid
        ELSE Returns(markDirty(paid.s, "resources"), True)
(***************************************************************************)
(* CodexStore, AchievementsStore: what the scheduler calls                 *)
(***************************************************************************)
\* AchievementsStore.addArticlesOpened
addArticlesOpened(s) ==
    markDirty([s EXCEPT !.achievements.totalArticlesOpened = @ + 1], "achievements")

\* AchievementsStore.completeOperation
completeOperation(s) ==
    markDirty([s EXCEPT !.achievements.operationsCompleted = @ + 1], "achievements")

\* CodexStore.unlockArticle(articleId)
unlockArticle(s, articleId) ==
    IF articleId \notin Articles THEN Throws(s, "Article not found")
    ELSE IF articleId \in s.unlockedArticles THEN Returns(s, Undefined)
    ELSE Returns(
            markDirty(
                addArticlesOpened([s EXCEPT !.unlockedArticles = @ \cup {articleId}]),
                "codex"),
            Undefined)

(***************************************************************************)
(* OperationsStore                                                         *)
(***************************************************************************)
\* operationsProgress[id], or NoProgress for undefined
NoProgress == [undefined |-> TRUE]
progressOf(s, id) == Get(s.operationsProgress, id, NoProgress)

\* a faulty phase for which an operation is still in progress at claimableAt
getOperationPhaseLate(progress, t) ==
    IF progress = NoProgress THEN "idle"
    ELSE IF progress.claimableAt > 0
         THEN (IF progress.claimableAt >= t THEN "inProgress" ELSE "claimable")
         ELSE (IF progress.cooldownTill > t THEN "cooldown" ELSE "idle")

\* OperationsStore.getOperationPhase(progress, now)
getOperationPhase(progress, t) ==
    IF progress = NoProgress THEN "idle"
    ELSE IF progress.claimableAt > 0
         THEN (IF progress.claimableAt > t THEN "inProgress" ELSE "claimable")
         ELSE (IF progress.cooldownTill > t THEN "cooldown" ELSE "idle")

Min(S) == CHOOSE x \in S : \A y \in S : x <= y

\* a faulty clearWake that forgets the handle and leaves the timer pending
clearWakeKeepTimer(s) == [s EXCEPT !.timeoutId = 0]

\* clearTimeout(this.timeoutId); this.timeoutId = undefined
clearWake(s) ==
    IF s.timeoutId # 0
    THEN [s EXCEPT !.timeouts = @ \ {s.timeoutId}, !.timeoutId = 0]
    ELSE s

\* OperationsStore.scheduleNextTick, called at time t
scheduleNextTick(s, t) ==
    LET c == clearWake(s)
        entries == {c.operationsProgress[id] : id \in DOMAIN c.operationsProgress}
        future == {p.claimableAt : p \in {e \in entries : e.claimableAt > t}}
                  \cup {p.cooldownTill : p \in {e \in entries : e.cooldownTill > t}}
        hasActiveCooldowns ==
            \E p \in entries : p.cooldownTill > t /\ p.claimableAt = 0
        first == IF future # {} THEN Min(future) - t ELSE gameRoundInterval
        delay == IF hasActiveCooldowns /\ first > gameRoundInterval
                 THEN gameRoundInterval ELSE first
    IN  IF future = {} /\ ~hasActiveCooldowns THEN c
        ELSE [c EXCEPT !.timeouts = @ \cup {t + delay}, !.timeoutId = t + delay]

\* OperationsStore.expireBonuses, called at time t
expireBonuses(s, t) ==
    LET kept == SelectSeq(s.activeBonuses, LAMBDA ab : ab.expiresAt > t)
    IN  IF Len(kept) # Len(s.activeBonuses)
        THEN markDirty([s EXCEPT !.activeBonuses = kept], "operations")
        ELSE [s EXCEPT !.activeBonuses = kept]

RECURSIVE SumOf(_, _)
\* the sum of f over the keys S
SumOf(f, S) ==
    IF S = {} THEN 0
    ELSE LET x == CHOOSE y \in S : TRUE IN f[x] + SumOf(f, S \ {x})

\* WorkersStore.totalEnergyProduction
totalEnergyProduction(s) ==
    10 + SumOf([w \in DOMAIN Workers |->
                   Workers[w].production.energy * Get(s.hiredWorkers, w, 0)],
               DOMAIN Workers)

\* WorkersStore.totalOutputProduction
totalOutputProduction(s) ==
    SumOf([w \in DOMAIN Workers |->
              Workers[w].production.output * Get(s.hiredWorkers, w, 0)],
          DOMAIN Workers)

\* AchievementsStore.addWorkers: the tally feeds achievement conditions only
\* and is not followed; the call marks the tracker dirty
achievementsAddWorkers(s, count) == markDirty(s, "achievements")

\* WorkersStore.addWorkers(workerId, count)
addWorkers(s, workerId, count) ==
    achievementsAddWorkers(
        markDirty([s EXCEPT !.hiredWorkers =
                      Put(@, workerId, Get(@, workerId, 0) + count)],
                  "workers"),
        count)

\* ResourcesStore.energyPerRound
energyPerRound(s) ==
    Ceil(RMul(RMul(RMul(I(baseEnergyProduction), I(totalEnergyProduction(s))),
                   getMultipliers(s, "workersEfficiency")),
              getMultipliers(s, "energyGain")))

\* ResourcesStore.outputPerRound
outputPerRound(s) ==
    Ceil(RMul(RMul(RMul(I(baseOutputProduction), I(totalOutputProduction(s))),
                   getMultipliers(s, "workersEfficiency")),
              getMultipliers(s, "outputGain")))

\* ResourcesStore.moneyPerRound
moneyPerRound(s) ==
    Ceil(RMul(RMul(moneyPerReputation, I(s.resources["reputation"])),
              getMultipliers(s, "moneyGain")))

\* a faulty round that computes the rates before it expires the bonuses
resourcesRoundLateExpiry(s, t) ==
    LET s1 == IF energyPerRound(s) >= 1
              THEN addResource(s, "energy", I(energyPerRound(s))).s
              ELSE s
        s2 == IF outputPerRound(s) >= 1
              THEN addResource(s1, "output", I(outputPerRound(s))).s
              ELSE s1
        s3 == IF moneyPerRound(s) >= 1
              THEN addResource(s2, "money", I(moneyPerRound(s))).s
              ELSE s2
    IN  expireBonuses(s3, t)

\* ResourcesStore.round, called at time t
resourcesRound(s, t) ==
    LET expired == expireBonuses(s, t)
        s1 == IF energyPerRound(expired) >= 1
              THEN addResource(expired, "energy", I(energyPerRound(expired))).s
              ELSE expired
        s2 == IF outputPerRound(s1) >= 1
              THEN addResource(s1, "output", I(outputPerRound(s1))).s
              ELSE s1
    IN  IF moneyPerRound(s2) >= 1
        THEN addResource(s2, "money", I(moneyPerRound(s2))).s
        ELSE s2

\* a validated cost map as the numbers it holds
CostOf(cost) == [r \in DOMAIN cost |-> I(cost[r])]

\* seconds (a rational) as whole milliseconds
Millis(seconds) == (seconds.n * 1000) \div seconds.d

\* the reward of a claim for one resource: Math.ceil(base * getMultipliers(key))
RewardAmount(s, base, key) == I(Ceil(RMul(I(base), getMultipliers(s, key))))

RECURSIVE unlockArticles(_, _, _)
\* the loop over operation.articlesUnlocks; a throw leaves the loop
unlockArticles(s, unlocks, finishedCount) ==
    IF unlocks = << >> THEN Returns(s, Undefined)
    ELSE IF Head(unlocks).level <= finishedCount
         THEN LET o == unlockArticle(s, Head(unlocks).id) IN
              IF o.err # "" THEN o
              ELSE unlockArticles(o.s, Tail(unlocks), finishedCount)
         ELSE unlockArticles(s, Tail(unlocks), finishedCount)

\* the rewards of claimOperation, in order: reputation, output, money, bonus
applyRewards(s, operation, t) ==
    LET s1 == addResource(s, "reputation",
                          RewardAmount(s, operation.rewards.reputation, "reputationGain")).s
        s2 == IF operation.rewards.output # 0
              THEN addResource(s1, "output",
                               RewardAmount(s1, operation.rewards.output, "outputGain")).s
              ELSE s1
        s3 == IF operation.rewards.money # 0
              THEN addResource(s2, "money",
                               RewardAmount(s2, operation.rewards.money, "moneyGain")).s
              ELSE s2
        bonus == operation.rewards.bonus
    IN  IF bonus.type = "multiplier" /\ bonus.duration # 0
        THEN [s3 EXCEPT !.activeBonuses =
                 Append(@, [bonus |-> bonus, expiresAt |-> t + bonus.duration * 1000])]
        ELSE s3

\* a faulty cleared entry that forgets the cooldown as well
clearedEntryNoCooldown(progressEntry) == [claimableAt |-> 0, cooldownTill |-> 0]

\* claimOperation: the progress entry a claim leaves
clearedEntry(progressEntry) == [progressEntry EXCEPT !.claimableAt = 0]

Step(name, s) == [step |-> name, s |-> s]

\* a faulty claim that notifies the achievement tracker before anything else
claimStepsNotifyingFirst(s, operation, t) ==
    LET progressEntry == progressOf(s, operation.id)
        finishedCount == Get(s.operationsFinished, operation.id, 0) + 1
        notified == completeOperation(s)
        counted == [notified EXCEPT !.operationsFinished =
                       Put(@, operation.id, finishedCount)]
        rewarded == applyRewards(counted, operation, t)
        unlocked == unlockArticles(rewarded, operation.articlesUnlocks, finishedCount)
        cleared == markDirty(
            [unlocked.s EXCEPT !.operationsProgress =
                Put(@, operation.id, clearedEntry(progressEntry))],
            "operations")
    IN  << Step("notify", notified), Step("count", counted),
           Step("reputation", rewarded), Step("unlocks", unlocked.s) >>
        \o (IF unlocked.err # "" THEN << >>
            ELSE << Step("clear", cleared),
                    Step("schedule", scheduleNextTick(cleared, t)) >>)

\* claimOperation of a claimable operation, statement by statement: the
\* state each step leaves, up to the throw of unlockArticle if there is one
claimSteps(s, operation, t) ==
    LET progressEntry == progressOf(s, operation.id)
        finishedCount == Get(s.operationsFinished, operation.id, 0) + 1
        rewards == operation.rewards
        counted == [s EXCEPT !.operationsFinished = Put(@, operation.id, finishedCount)]
        s1 == addResource(counted, "reputation",
                          RewardAmount(counted, rewards.reputation, "reputationGain")).s
        s2 == addResource(s1, "output",
                          RewardAmount(s1, rewards.output, "outputGain")).s
        afterOutput == IF rewards.output # 0 THEN s2 ELSE s1
        s3 == addResource(afterOutput, "money",
                          RewardAmount(afterOutput, rewards.money, "moneyGain")).s
        afterMoney == IF rewards.money # 0 THEN s3 ELSE afterOutput
        timed == rewards.bonus.type = "multiplier" /\ rewards.bonus.duration # 0
        s4 == [afterMoney EXCEPT !.activeBonuses =
                  Append(@, [bonus |-> rewards.bonus,
                             expiresAt |-> t + rewards.bonus.duration * 1000])]
        afterBonus == IF timed THEN s4 ELSE afterMoney
        unlocked == unlockArticles(afterBonus, operation.articlesUnlocks, finishedCount)
        cleared == markDirty(
            [unlocked.s EXCEPT !.operationsProgress =
                Put(@, operation.id, clearedEntry(progressEntry))],
            "operations")
        notified == completeOperation(cleared)
    IN  << Step("count", counted), Step("reputation", s1) >>
        \o (IF rewards.output # 0 THEN << Step("output", s2) >> ELSE << >>)
        \o (IF rewards.money # 0 THEN << Step("money", s3) >> ELSE << >>)
        \o (IF timed THEN << Step("bonus", s4) >> ELSE << >>)
        \o << Step("unlocks", unlocked.s) >>
        \o (IF unlocked.err # "" THEN << >>
            ELSE << Step("clear", cleared), Step("notify", notified),
                    Step("schedule", scheduleNextTick(notified, t)) >>)

\* OperationsStore.claimOperation(operation), called at time t
claimOperation(s, operation, t) ==
    LET progressEntry == progressOf(s, operation.id)
        phase == getOperationPhase(progressEntry, t)
        finishedCount == Get(s.operationsFinished, operation.id, 0) + 1
        counted == [s EXCEPT !.operationsFinished = Put(@, operation.id, finishedCount)]
        rewarded == applyRewards(counted, operation, t)
        unlocked == unlockArticles(rewarded, operation.articlesUnlocks, finishedCount)
        cleared == markDirty(
            [unlocked.s EXCEPT !.operationsProgress =
                Put(@, operation.id, clearedEntry(progressEntry))],
            "operations")
    IN  IF progressEntry = NoProgress \/ progressEntry.claimableAt = 0
        THEN Throws(s, "could not be claimed")
        ELSE IF phase = "inProgress" THEN Throws(s, "is not yet claimable")
        ELSE IF phase \in {"cooldown", "idle"} THEN Throws(s, "has already been claimed")
        ELSE IF unlocked.err # "" THEN unlocked
        ELSE Returns(scheduleNextTick(completeOperation(cleared), t), Undefined)

\* faulty seconds of cooldown left, rounded down
remainingSecondsFloor(cooldownTill, t) == (cooldownTill - t) \div 1000

\* conductOperation: the seconds of cooldown left that the error reports
remainingSeconds(cooldownTill, t) == Ceil(R(cooldownTill - t, 1000))

\* a faulty cost multiplier that leaves out the rarity scaling
finalMultiplierUnscaled(s, operation) ==
    RInv(RMax(getMultipliers(s, "operationCostReduction"), ReductionFloor))

\* conductOperation: the multiplier of the cost, rarity scaling and reduction
finalMultiplier(s, operation) ==
    LET operationCostReduction ==
            RMax(getMultipliers(s, "operationCostReduction"), ReductionFloor)
        upgradeMultiplier == RInv(operationCostReduction)
    IN  RMul(operationScaleFactor[operation.rarity], upgradeMultiplier)

\* a faulty progress entry whose cooldown does not include the duration
startedEntryShort(t, duration, cooldown) ==
    [cooldownTill |-> t + Millis(cooldown) - Millis(duration),
     claimableAt |-> t + Millis(duration)]

\* a faulty progress entry that becomes claimable only when the cooldown ends
startedEntryLate(t, duration, cooldown) ==
    [cooldownTill |-> t + Millis(cooldown), claimableAt |-> t + Millis(cooldown)]

\* a faulty progress entry that is claimable at once
startedEntryInstant(t, duration, cooldown) ==
    [cooldownTill |-> t + Millis(cooldown), claimableAt |-> t]

\* conductOperation: the progress entry of an operation started at time t
startedEntry(t, duration, cooldown) ==
    [cooldownTill |-> t + Millis(cooldown), claimableAt |-> t + Millis(duration)]

\* a faulty conductOperation that leaves an operation without duration to be
\* claimed by a later call
conductOperationUnclaimed(s, operation, t) ==
    LET cooldownTill == IF operation.id \in DOMAIN s.operationsProgress
                        THEN s.operationsProgress[operation.id].cooldownTill ELSE 0
        spent == spendResourcesByCost(s, CostOf(operation.cost),
                                     finalMultiplier(s, operation))
        operationDurationReduction ==
            RMax(getMultipliers(spent.s, "operationDurationReduction"), ReductionFloor)
        durationMultiplier == RInv(operationDurationReduction)
        duration == RMul(I(operation.duration), durationMultiplier)
        cooldown == RAdd(duration, I(operation.cooldown))
        started == markDirty(
            [spent.s EXCEPT !.operationsProgress =
                Put(@, operation.id, startedEntry(t, duration, cooldown))],
            "operations")
    IN  IF cooldownTill > t
        THEN Out(s, Undefined, "is on cooldown", remainingSeconds(cooldownTill, t), "")
        ELSE IF spent.err # "" THEN spent
        ELSE IF spent.ret = False THEN Throws(s, "Insufficient resources")
        ELSE Returns(scheduleNextTick(started, t), NumV(RNorm(duration)))

\* OperationsStore.conductOperation(operation), called at time t
conductOperation(s, operation, t) ==
    LET cooldownTill == IF operation.id \in DOMAIN s.operationsProgress
                        THEN s.operationsProgress[operation.id].cooldownTill ELSE 0
        spent == spendResourcesByCost(s, CostOf(operation.cost),
                                     finalMultiplier(s, operation))
        operationDurationReduction ==
            RMax(getMultipliers(spent.s, "operationDurationReduction"), ReductionFloor)
        durationMultiplier == RInv(operationDurationReduction)
        duration == RMul(I(operation.duration), durationMultiplier)
        cooldown == RAdd(duration, I(operation.cooldown))
        started == markDirty(
            [spent.s EXCEPT !.operationsProgress =
                Put(@, operation.id, startedEntry(t, duration, cooldown))],
            "operations")
        claimed == claimOperation(started, operation, t)
    IN  IF cooldownTill > t
        THEN Out(s, Undefined, "is on cooldown", remainingSeconds(cooldownTill, t), "")
        ELSE IF spent.err # "" THEN spent
        ELSE IF spent.ret = False THEN Throws(s, "Insufficient resources")
        ELSE IF duration.n = 0
             THEN (IF claimed.err # "" THEN claimed ELSE Returns(claimed.s, NumV(I(0))))
        ELSE Returns(scheduleNextTick(started, t), NumV(RNorm(duration)))

\* a faulty actOnOperation that starts a claimable operation anew
actOnOperationConducting(s, operation, t) ==
    LET phase == getOperationPhase(progressOf(s, operation.id), t)
    IN  IF phase = "inProgress" THEN Throws(s, "is already in progress")
        ELSE IF phase = "cooldown" THEN Throws(s, "is in cooldown")
        ELSE conductOperation(s, operation, t)

\* OperationsStore.actOnOperation(operation), called at time t
actOnOperation(s, operation, t) ==
    LET phase == getOperationPhase(progressOf(s, operation.id), t)
        claimed == claimOperation(s, operation, t)
    IN  IF phase = "inProgress" THEN Throws(s, "is already in progress")
        ELSE IF phase = "cooldown" THEN Throws(s, "is in cooldown")
        ELSE IF phase = "claimable"
             THEN (IF claimed.err # "" THEN claimed ELSE Returns(claimed.s, NumV(I(0))))
        ELSE conductOperation(s, operation, t)

\* OperationsStore.canAffordOperation(operation)
canAffordOperation(s, operation) ==
    \A r \in DOMAIN operation.cost :
        ~RLess(I(s.resources[r]),
               RMul(I(operation.cost[r]), operationScaleFactor[operation.rarity]))

\* OperationsStore.reset
operationsReset(s) ==
    [clearWake(s) EXCEPT !.operationsFinished = EmptyMap,
                         !.operationsProgress = EmptyMap,
                         !.activeBonuses = << >>, !.tick = 0]

\* a faulty resetForPrestige that leaves the wake timer pending
resetForPrestigeKeepTimer(s) ==
    markDirty([s EXCEPT !.operationsFinished = EmptyMap,
                        !.operationsProgress = EmptyMap,
                        !.activeBonuses = << >>],
              "operations")

\* OperationsStore.resetForPrestige
resetForPrestige(s) ==
    markDirty(clearWake([s EXCEPT !.operationsFinished = EmptyMap,
                                  !.operationsProgress = EmptyMap,
                                  !.activeBonuses = << >>]),
              "operations")

(***************************************************************************)
(* UpgradesStore                                                           *)
(***************************************************************************)
\* UpgradesStore.canPurchaseUpgrade(upgrade); the catalog's upgrade has no
\* unlock condition
canPurchaseUpgrade(s, upgrade) ==
    LET currentLevel == Get(s.unlockedUpgrades, upgrade.id, 0)
        levelCostMultiplier == RPow(upgrade.costMultiplier, currentLevel)
    IN  /\ currentLevel < upgrade.maxLevel
        /\ \A r \in DOMAIN upgrade.cost :
              ~RLess(I(s.resources[r]), RMul(I(upgrade.cost[r]), levelCostMultiplier))

\* UpgradesStore.purchaseUpgrade(upgrade)
purchaseUpgrade(s, upgrade) ==
    LET currentLevel == Get(s.unlockedUpgrades, upgrade.id, 0)
        levelCostMultiplier == RPow(upgrade.costMultiplier, currentLevel)
        spent == spendResourcesByCost(s, CostOf(upgrade.cost), levelCostMultiplier)
    IN  IF ~canPurchaseUpgrade(s, upgrade) THEN Throws(s, "Cannot purchase upgrade")
        ELSE IF spent.err # "" THEN spent
        ELSE IF spent.ret = False THEN Throws(s, "Insufficient resources for upgrade")
        ELSE Returns(
                markDirty([spent.s EXCEPT !.unlockedUpgrades =
                              Put(@, upgrade.id, currentLevel + 1)],
                          "upgrades"),
                Undefined)
(***************************************************************************)
(* SyncStore                                                               *)
(***************************************************************************)
\* a faulty snapshot that leaves the progress map out
getSnapshotNoProgress(s, timestamp) ==
    [version |-> gameVersion, timestamp |-> timestamp,
     resources |-> s.resources,
     workers |-> [hiredWorkers |-> s.hiredWorkers],
     operations |-> [operationsFinished |-> s.operationsFinished,
                     operationsProgress |-> EmptyMap,
                     activeBonuses |-> s.activeBonuses],
     codex |-> [unlockedArticles |-> SetToSeq(s.unlockedArticles)],
     level |-> s.level,
     upgrades |-> [unlockedUpgrades |-> s.unlockedUpgrades],
     achievements |->
        [totalArticlesOpened |-> s.achievements.totalArticlesOpened,
         operationsCompleted |-> s.achievements.operationsCompleted,
         unlockedAchievements |-> SetToSeq(s.achievements.unlockedAchievements)],
     prestige |-> s.prestige]

\* SyncStore.getSnapshot(timestamp)
getSnapshot(s, timestamp) ==
    [version |-> gameVersion, timestamp |-> timestamp,
     resources |-> s.resources,
     workers |-> [hiredWorkers |-> s.hiredWorkers],
     operations |-> [operationsFinished |-> s.operationsFinished,
                     operationsProgress |-> s.operationsProgress,
                     activeBonuses |-> s.activeBonuses],
     codex |-> [unlockedArticles |-> SetToSeq(s.unlockedArticles)],
     level |-> s.level,
     upgrades |-> [unlockedUpgrades |-> s.unlockedUpgrades],
     achievements |->
        [totalArticlesOpened |-> s.achievements.totalArticlesOpened,
         operationsCompleted |-> s.achievements.operationsCompleted,
         unlockedAchievements |-> SetToSeq(s.achievements.unlockedAchievements)],
     prestige |-> s.prestige]

\* A JSON object is the set of its members <<key, value>>, an array a sequence.
Members(f) == {<<k, f[k]>> : k \in DOMAIN f}
FromMembers(M) == [k \in {m[1] : m \in M} |-> (CHOOSE m \in M : m[1] = k)[2]]

\* JSON.stringify(snapshot)
stringify(v) ==
    [version |-> v.version, timestamp |-> v.timestamp,
     resources |-> Members(v.resources),
     workers |-> [hiredWorkers |-> Members(v.workers.hiredWorkers)],
     operations |->
        [operationsFinished |-> Members(v.operations.operationsFinished),
         operationsProgress |-> Members(v.operations.operationsProgress),
         activeBonuses |-> v.operations.activeBonuses],
     codex |-> v.codex,
     level |-> v.level,
     upgrades |-> [unlockedUpgrades |-> Members(v.upgrades.unlockedUpgrades)],
     achievements |-> v.achievements,
     prestige |-> [points |-> v.prestige.points,
                   purchasedUpgrades |-> Members(v.prestige.purchasedUpgrades)]]

\* JSON.parse(data)
parse(j) ==
    [version |-> j.version, timestamp |-> j.timestamp,
     resources |-> FromMembers(j.resources),
     workers |-> [hiredWorkers |-> FromMembers(j.workers.hiredWorkers)],
     operations |->
        [operationsFinished |-> FromMembers(j.operations.operationsFinished),
         operationsProgress |-> FromMembers(j.operations.operationsProgress),
         activeBonuses |-> j.operations.activeBonuses],
     codex |-> j.codex,
     level |-> j.level,
     upgrades |-> [unlockedUpgrades |-> FromMembers(j.upgrades.unlockedUpgrades)],
     achievements |-> j.achievements,
     prestige |-> [points |-> j.prestige.points,
                   purchasedUpgrades |-> FromMembers(j.prestige.purchasedUpgrades)]]

\* localStorage.getItem(SAVE_KEY): null, or the text stored
NoItem == [item |-> FALSE]
Item(text) == [item |-> TRUE, text |-> text]

\* gameSaveSchema: the shape a parsed snapshot must have
gameSaveSchema(v) ==
    /\ DOMAIN v.resources = Resource
    /\ \A r \in Resource : v.resources[r] >= 0
    /\ \A w \in DOMAIN v.workers.hiredWorkers : v.workers.hiredWorkers[w] >= 0
    /\ \A id \in DOMAIN v.operations.operationsFinished :
          v.operations.operationsFinished[id] >= 0
    /\ \A id \in DOMAIN v.operations.operationsProgress :
          DOMAIN v.operations.operationsProgress[id] = {"claimableAt", "cooldownTill"}
    /\ \A i \in 1..Len(v.operations.activeBonuses) :
          /\ v.operations.activeBonuses[i].bonus.type \in {"multiplier", "flat"}
          /\ nonNegativeNumberSchema(v.operations.activeBonuses[i].bonus.value)
          /\ v.operations.activeBonuses[i].bonus.duration >= 0
    /\ v.level.currentLevel >= 0 /\ v.level.maxLevelReached >= 0
    /\ \A u \in DOMAIN v.upgrades.unlockedUpgrades : v.upgrades.unlockedUpgrades[u] >= 0
    /\ v.achievements.totalArticlesOpened >= 0
    /\ v.achievements.operationsCompleted >= 0
    /\ v.prestige.points >= 0
    /\ \A u \in DOMAIN v.prestige.purchasedUpgrades :
          v.prestige.purchasedUpgrades[u] >= 0

\* ResourcesStore.loadSnapshot
resourcesLoadSnapshot(s, snapshot) ==
    [s EXCEPT !.resources = [r \in Resource |-> snapshot.resources[r]]]
\* WorkersStore.loadSnapshot
workersLoadSnapshot(s, snapshot) ==
    [s EXCEPT !.hiredWorkers = snapshot.workers.hiredWorkers]
\* a faulty loader that completes the entries whose claimableAt has passed
operationsLoadSnapshotAdvancing(s, snapshot, t) ==
    scheduleNextTick(
        [s EXCEPT !.operationsFinished = snapshot.operations.operationsFinished,
                  !.operationsProgress =
                      [id \in DOMAIN snapshot.operations.operationsProgress |->
                          LET e == snapshot.operations.operationsProgress[id] IN
                          IF e.claimableAt > 0 /\ e.claimableAt <= t
                          THEN [e EXCEPT !.claimableAt = 0] ELSE e],
                  !.activeBonuses = snapshot.operations.activeBonuses],
        t)

\* OperationsStore.loadSnapshot, called at time t
operationsLoadSnapshot(s, snapshot, t) ==
    scheduleNextTick(
        [s EXCEPT !.operationsFinished = snapshot.operations.operationsFinished,
                  !.operationsProgress = snapshot.operations.operationsProgress,
                  !.activeBonuses = snapshot.operations.activeBonuses],
        t)
\* CodexStore.loadSnapshot
codexLoadSnapshot(s, snapshot) ==
    [s EXCEPT !.unlockedArticles = SeqToSet(snapshot.codex.unlockedArticles)]
\* LevelStore.loadSnapshot
levelLoadSnapshot(s, snapshot) == [s EXCEPT !.level = snapshot.level]
\* AchievementsStore.loadSnapshot
achievementsLoadSnapshot(s, snapshot) ==
    [s EXCEPT !.achievements =
        [totalArticlesOpened |-> snapshot.achievements.totalArticlesOpened,
         operationsCompleted |-> snapshot.achievements.operationsCompleted,
         unlockedAchievements |-> SeqToSet(snapshot.achievements.unlockedAchievements)]]
\* UpgradesStore.loadSnapshot
upgradesLoadSnapshot(s, snapshot) ==
    [s EXCEPT !.unlockedUpgrades = snapshot.upgrades.unlockedUpgrades]
\* PrestigeStore.loadSnapshot
prestigeLoadSnapshot(s, snapshot) == [s EXCEPT !.prestige = snapshot.prestige]

\* the loaders of the stores in the order of STORES_TO_SYNC
loadStores(s, snapshot, t) ==
    Returns(
            prestigeLoadSnapshot(
             upgradesLoadSnapshot(
              achievementsLoadSnapshot(
               levelLoadSnapshot(
                codexLoadSnapshot(
                 operationsLoadSnapshot(
                  workersLoadSnapshot(
                   resourcesLoadSnapshot(s, snapshot),
                   snapshot),
                  snapshot, t),
                 snapshot),
                snapshot),
               snapshot),
              snapshot),
             snapshot),
            Undefined)

\* a faulty loadSnapshot that overwrites unsaved changes
loadSnapshotUnchecked(s, snapshot, t) == loadStores(s, snapshot, t)

\* SyncStore.loadSnapshot(snapshot), called at time t
loadSnapshot(s, snapshot, t) ==
    IF s.dirty # {}
    THEN Throws(s, "Cannot load snapshot while store state is dirty")
    ELSE loadStores(s, snapshot, t)

\* the state of a store after its reset()
InitialResources == [r \in Resource |-> 0]
InitialLevel == [currentLevel |-> 0, maxLevelReached |-> 0]
InitialAchievements ==
    [totalArticlesOpened |-> 0, operationsCompleted |-> 0, unlockedAchievements |-> {}]
InitialPrestige == [points |-> 0, purchasedUpgrades |-> EmptyMap]

\* the loop of SyncStore.reset over STORES_TO_SYNC: every store's reset()
resetStores(s) ==
    [operationsReset(s) EXCEPT
        !.resources = InitialResources, !.hiredWorkers = EmptyMap,
        !.unlockedArticles = {}, !.level = InitialLevel,
        !.achievements = InitialAchievements, !.unlockedUpgrades = EmptyMap,
        !.prestige = InitialPrestige, !.totalPlaytimeSeconds = 0]
\* a faulty saveBegin that looks at the gate before the dirty flags
saveBeginGateFirst(s, t, writeOk) ==
    IF s.syncState # "idle" THEN Throws(s, "Cannot save while state is not idle")
    ELSE IF s.dirty = {} THEN Returns(s, Undefined)
    ELSE IF ~(t - s.lastSave > localSaveInterval) THEN Returns(s, Undefined)
    ELSE Returns(
            [s EXCEPT !.syncState = "saving",
                      !.storage = IF writeOk THEN Item(stringify(getSnapshot(s, t))) ELSE @,
                      !.flows = Append(@, [kind |-> "save", now |-> t, ok |-> writeOk])],
            Pending)

\* SyncStore.save up to its yield, called at time t; writeOk: whether
\* localStorage.setItem succeeds (a throw in the executor rejects the promise)
saveBegin(s, t, writeOk) ==
    IF s.dirty = {} THEN Returns(s, Undefined)
    ELSE IF s.syncState # "idle" THEN Throws(s, "Cannot save while state is not idle")
    ELSE IF ~(t - s.lastSave > localSaveInterval) THEN Returns(s, Undefined)
    ELSE Returns(
            [s EXCEPT !.syncState = "saving",
                      !.storage = IF writeOk THEN Item(stringify(getSnapshot(s, t))) ELSE @,
                      !.flows = Append(@, [kind |-> "save", now |-> t, ok |-> writeOk])],
            Pending)

\* a faulty saveResume that forgets clearDirty()
saveResumeKeepDirty(s, flow) ==
    IF flow.ok
    THEN Returns([s EXCEPT !.lastSave = flow.now,
                           !.syncState = "idle", !.flows = Tail(@)],
                 Undefined)
    ELSE Throws([s EXCEPT !.syncState = "idle", !.flows = Tail(@)],
                "storage write failed")

\* a faulty saveResume without the finally block: a failed write leaves the
\* gate saving
saveResumeNoFinally(s, flow) ==
    IF flow.ok
    THEN Returns([s EXCEPT !.dirty = {}, !.lastSave = flow.now,
                           !.syncState = "idle", !.flows = Tail(@)],
                 Undefined)
    ELSE Throws([s EXCEPT !.flows = Tail(@)], "storage write failed")

\* SyncStore.save from its yield on
saveResume(s, flow) ==
    IF flow.ok
    THEN Returns([s EXCEPT !.dirty = {}, !.lastSave = flow.now,
                           !.syncState = "idle", !.flows = Tail(@)],
                 Undefined)
    ELSE Throws([s EXCEPT !.syncState = "idle", !.flows = Tail(@)],
                "storage write failed")

\* a faulty load that does not look at the gate
loadBeginUngated(s) ==
    Returns([s EXCEPT !.syncState = "loading",
                      !.flows = Append(@, [kind |-> "load", data |-> s.storage])],
            Pending)

\* SyncStore.load up to its yield
loadBegin(s) ==
    IF s.syncState # "idle" THEN Throws(s, "Cannot load while state is not idle")
    ELSE Returns([s EXCEPT !.syncState = "loading",
                           !.flows = Append(@, [kind |-> "load", data |-> s.storage])],
                 Pending)

\* a text that is not JSON: JSON.parse throws a SyntaxError on it
Truncated == [cut |-> TRUE]
isJSON(text) == "version" \in DOMAIN text

\* a faulty loadResume that hands the parsed text to the loaders unvalidated
loadResumeUnvalidated(s, flow, t) ==
    LET idle == [s EXCEPT !.syncState = "idle", !.flows = Tail(@)]
        snapshot == parse(flow.data.text)
        loaded == loadSnapshot(idle, snapshot, t)
    IN  IF ~flow.data.item THEN Returns(idle, Undefined)
        ELSE IF ~isJSON(flow.data.text) THEN Logged(idle, "Failed to load save data")
        ELSE IF loaded.err # "" THEN Logged(idle, loaded.err)
        ELSE Returns(loaded.s, NumV(I(snapshot.timestamp)))

\* SyncStore.load from its yield on, resumed at time t
loadResume(s, flow, t) ==
    LET idle == [s EXCEPT !.syncState = "idle", !.flows = Tail(@)]
        snapshot == parse(flow.data.text)
        loaded == loadSnapshot(idle, snapshot, t)
    IN  IF ~flow.data.item THEN Returns(idle, Undefined)
        ELSE IF ~isJSON(flow.data.text) THEN Logged(idle, "Failed to load save data")
        ELSE IF ~gameSaveSchema(snapshot) THEN Logged(idle, "Failed to load save data")
        ELSE IF loaded.err # "" THEN Logged(idle, loaded.err)
        ELSE Returns(loaded.s, NumV(I(snapshot.timestamp)))

\* a faulty reset that leaves the stored snapshot in place
syncResetKeepItem(s) ==
    IF s.syncState # "idle" THEN Throws(s, "Cannot reset while state is not idle")
    ELSE Returns(resetStores(s), Undefined)

\* SyncStore.reset
syncReset(s) ==
    IF s.syncState # "idle" THEN Throws(s, "Cannot reset while state is not idle")
    ELSE Returns([resetStores(s) EXCEPT !.storage = NoItem], Undefined)

\* the callback of the wake timer that was set to fire at f, run at time t
wake(s, f, t) ==
    scheduleNextTick([s EXCEPT !.timeouts = @ \ {f}, !.tick = @ + 1], t)

(***************************************************************************)
(* The state machine                                                       *)
(***************************************************************************)
NoCall == [call |-> "none", arg |-> "", ret |-> Undefined, err |-> "", info |-> 0,
           log |-> ""]

Init ==
    /\ now = StartTime
    /\ resources = InitialResources
    /\ hiredWorkers = EmptyMap
    /\ operationsFinished = EmptyMap
    /\ operationsProgress = EmptyMap
    /\ activeBonuses = << >>
    /\ tick = 0
    /\ timeoutId = 0
    /\ timeouts = {}
    /\ unlockedArticles = {}
    /\ level = InitialLevel
    /\ unlockedUpgrades = EmptyMap
    /\ achievements = InitialAchievements
    /\ prestige = InitialPrestige
    /\ totalPlaytimeSeconds = 0
    /\ running = FALSE
    /\ loopTimers = << >>
    /\ syncState = "idle"
    /\ lastSave = 0
    /\ dirty = {}
    /\ storage = NoItem
    /\ flows = << >>
    /\ result = NoCall

(***************************************************************************)
(* The rounds of the other stores, and GameStore                           *)
(***************************************************************************)
\* OperationsStore.totalOperationsCompleted
totalOperationsCompleted(s) == SumOf(s.operationsFinished, DOMAIN s.operationsFinished)

\* LevelStore.unlockedLevels: the indices (from 0) of the levels whose cost is
\* met; no prestige upgrade of the catalog lowers a threshold
unlockedLevels(s) ==
    {i \in 0..(Len(Levels) - 1) :
        /\ Levels[i + 1].unlockCost.operationsCompleted <= totalOperationsCompleted(s)
        /\ Levels[i + 1].unlockCost.unlockedArticles \subseteq s.unlockedArticles}

\* AchievementsStore.levelReached: the level the tracker remembers (known)
\* feeds achievement conditions only and is not followed; the call marks
\* the tracker dirty when the level is new to it
levelReached(s, known, reached) ==
    IF reached > known THEN markDirty(s, "achievements") ELSE s

\* LevelStore.round (the popup it opens changes nothing until it is
\* answered).  The tracker hears of levels from this round alone, so what it
\* remembers is what the level store had reached
levelRound(s) ==
    LET nextLevel == Cardinality(unlockedLevels(s)) - 1
    IN  IF nextLevel > s.level.maxLevelReached
        THEN levelReached(markDirty([s EXCEPT !.level.maxLevelReached = nextLevel],
                                    "level"),
                          s.level.maxLevelReached, nextLevel)
        ELSE s

\* PrestigeStore.round: the two playtime counters advance together, and the
\* total is the one followed
prestigeRound(s) ==
    markDirty([s EXCEPT !.totalPlaytimeSeconds = @ + gameRoundInterval], "prestige")

\* AchievementsStore.checkAchievement, for the conditions of the catalog
checkAchievement(s, condition) ==
    /\ condition.type = "operationsCompleted"
    /\ condition.count <= s.achievements.operationsCompleted

\* AchievementsStore.round: every achievement not yet unlocked whose condition
\* holds is unlocked
achievementsRound(s) ==
    LET earned == {id \in DOMAIN Achievements \ s.achievements.unlockedAchievements :
                      checkAchievement(s, Achievements[id].condition)}
    IN  IF earned = {} THEN s
        ELSE markDirty([s EXCEPT !.achievements.unlockedAchievements = @ \cup earned],
                       "achievements")

\* a faulty loop that does not look at the running flag
gameLoopUnguarded(s, t, writeOk) ==
    LET rounded == achievementsRound(prestigeRound(levelRound(resourcesRound(s, t))))
        saved == IF t - rounded.lastSave >= localSaveInterval
                 THEN saveBegin(rounded, t, writeOk).s
                 ELSE rounded
    IN  [saved EXCEPT !.loopTimers = Append(@, t + gameRoundInterval)]

\* GameStore.loop, run at time t; the promise of save() is dropped
gameLoop(s, t, writeOk) ==
    IF ~s.running THEN s
    ELSE LET rounded == achievementsRound(prestigeRound(levelRound(resourcesRound(s, t))))
             saved == IF t - rounded.lastSave >= localSaveInterval
                      THEN saveBegin(rounded, t, writeOk).s
                      ELSE rounded
         IN  [saved EXCEPT !.loopTimers = Append(@, t + gameRoundInterval)]

\* GameStore.start
gameStart(s, t, writeOk) ==
    IF s.running THEN s
    ELSE gameLoop([s EXCEPT !.running = TRUE], t, writeOk)

\* GameStore.stop; the promise of save() is dropped
gameStop(s, t, writeOk) == saveBegin([s EXCEPT !.running = FALSE], t, writeOk).s

\* GameStore.reset: stop(), then SyncStore.reset()
gameReset(s, t, writeOk) == syncReset(gameStop(s, t, writeOk))

\* the aggregate a handler leaves becomes the next state
Commit(s) ==
    /\ resources' = s.resources
    /\ hiredWorkers' = s.hiredWorkers
    /\ operationsFinished' = s.operationsFinished
    /\ operationsProgress' = s.operationsProgress
    /\ activeBonuses' = s.activeBonuses
    /\ tick' = s.tick
    /\ timeoutId' = s.timeoutId
    /\ timeouts' = s.timeouts
    /\ unlockedArticles' = s.unlockedArticles
    /\ level' = s.level
    /\ unlockedUpgrades' = s.unlockedUpgrades
    /\ achievements' = s.achievements
    /\ prestige' = s.prestige
    /\ totalPlaytimeSeconds' = s.totalPlaytimeSeconds
    /\ running' = s.running
    /\ loopTimers' = s.loopTimers
    /\ syncState' = s.syncState
    /\ lastSave' = s.lastSave
    /\ dirty' = s.dirty
    /\ storage' = s.storage
    /\ flows' = s.flows

\* a public call with outcome o
Call(name, arg, o) ==
    /\ Commit(o.s)
    /\ result' = [call |-> name, arg |-> arg, ret |-> o.ret, err |-> o.err,
                  info |-> o.info, log |-> o.log]
    /\ now' = now

\* the step leaves the outcome of a call of this name (what every such call
\* does; it is tested first in the properties of a call)
IsCall(name) == result'.call = name

\* the in-memory state of the sub-stores, the timer of the scheduler and the
\* game loop
memory ==
    <<resources, hiredWorkers, operationsFinished, operationsProgress,
      activeBonuses, tick, timeoutId, timeouts, unlockedArticles, level,
      unlockedUpgrades, achievements, prestige, totalPlaytimeSeconds, running,
      loopTimers>>

\* time passes
Tick ==
    /\ now + ClockStep <= MaxNow
    /\ now' = now + ClockStep
    /\ UNCHANGED <<memory, syncState, lastSave, dirty, storage, flows, result>>

\* a wake timer that is due fires; timers run after the pending continuations
\* of save() and load(), which are microtasks
Wake ==
    /\ flows = << >>
    /\ \E f \in timeouts :
          /\ f <= now
          /\ Commit(wake(Cur, f, now))
    /\ UNCHANGED <<now, result>>

AddResourceCall(resource, amount) ==
    /\ nonNegativeIntegerSchema(amount) =>
          resources[resource] + amount.n \div amount.d <= MaxResource
    /\ Call("addResource", resource, addResource(Cur, resource, amount))

SpendResourceCall(resource, amount) ==
    Call("spendResource", resource, spendResource(Cur, resource, amount))

SpendResourcesByCostCall(cost, multiplier) ==
    Call("spendResourcesByCost", [cost |-> cost, multiplier |-> multiplier],
         spendResourcesByCost(Cur, cost, multiplier))

ConductOperationCall(id) ==
    Call("conductOperation", id, conductOperation(Cur, Operations[id], now))

ClaimOperationCall(id) ==
    Call("claimOperation", id, claimOperation(Cur, Operations[id], now))

ActOnOperationCall(id) ==
    Call("actOnOperation", id, actOnOperation(Cur, Operations[id], now))

ExpireBonusesCall ==
    Call("expireBonuses", "", Returns(expireBonuses(Cur, now), Undefined))

PurchaseUpgradeCall(id) ==
    Call("purchaseUpgrade", id, purchaseUpgrade(Cur, Upgrades[id]))

SaveCall ==
    \E writeOk \in BOOLEAN : Call("save", "", saveBegin(Cur, now, writeOk))

SaveResume ==
    /\ flows # << >>
    /\ Head(flows).kind = "save"
    /\ Call("save", "", saveResume(Cur, Head(flows)))

LoadCall == Call("load", "", loadBegin(Cur))

LoadResume ==
    /\ flows # << >>
    /\ Head(flows).kind = "load"
    /\ Call("load", "", loadResume(Cur, Head(flows), now))

ResetCall == Call("reset", "", syncReset(Cur))

RoundCall ==
    /\ \A r \in Resource : resourcesRound(Cur, now).resources[r] <= MaxProduced
    /\ Call("round", "", Returns(resourcesRound(Cur, now), Undefined))

AddWorkersCall(workerId, count) ==
    /\ Get(hiredWorkers, workerId, 0) + count <= MaxWorkers
    /\ Call("addWorkers", workerId, Returns(addWorkers(Cur, workerId, count), Undefined))

GetMultipliersCall(key) ==
    Call("getMultipliers", key, Returns(Cur, NumV(RNorm(getMultipliers(Cur, key)))))

ResetForPrestigeCall ==
    Call("resetForPrestige", "", Returns(resetForPrestige(Cur), Undefined))

(***************************************************************************)
(* Specifications.  The inputs of the calls are drawn from small sets.     *)
(***************************************************************************)
\* the amounts the game hands to addResource
GameAmounts == {<<"energy", 6>>, <<"output", 12>>}

AddGameResource == \E p \in GameAmounts : AddResourceCall(p[1], I(p[2]))

\* the operations played together
PlayedIds == {"survey", "dive"}

\* gameplay: the ledger, the scheduler and the upgrades
Next ==
    \/ Tick
    \/ Wake
    \/ AddGameResource
    \/ \E id \in PlayedIds : ConductOperationCall(id)
    \/ \E id \in PlayedIds : ClaimOperationCall(id)
    \/ PurchaseUpgradeCall("fastBoat")

Spec == Init /\ [][Next]_vars

\* the ledger alone, called with arbitrary numbers
LedgerAmounts == {I(1), I(2), R(1, 2), I(-1)}
LedgerCosts ==
    {[energy |-> I(1)], [energy |-> I(1), money |-> I(2)],
     [output |-> I(1), reputation |-> R(1, 2)], [energy |-> I(2), output |-> I(-1)]}
LedgerMultipliers == {I(0), I(1), R(3, 2), I(-1)}

AddLedger ==
    \E r \in Resource, a \in LedgerAmounts :
        /\ nonNegativeIntegerSchema(a) => resources[r] + a.n \div a.d <= MaxLedger
        /\ AddResourceCall(r, a)
\* the amounts asked of spendResource: nothing at all is one of them
SpendAmounts == LedgerAmounts \cup {I(0)}
SpendLedger == \E r \in Resource, a \in SpendAmounts : SpendResourceCall(r, a)
SpendLedgerByCost ==
    \E cost \in LedgerCosts, m \in LedgerMultipliers : SpendResourcesByCostCall(cost, m)

NextLedger == AddLedger \/ SpendLedger \/ SpendLedgerByCost

SpecLedger == Init /\ [][NextLedger]_vars

(***************************************************************************)
(* Properties of the resource ledger                                       *)
(***************************************************************************)
\* C1: after any sequence of addResource, spendResource and
\* spendResourcesByCost calls, failing ones included, each of the four
\* counters is a non-negative integer
CountersNonNegative == \A r \in Resource : resources[r] \in Nat

\* a call with a cost of mixed sign has thrown after its first deduction, and
\* the counters hold what is left
AfterFailedSpend ==
    /\ result.call = "spendResourcesByCost"
    /\ result.err = "validation"
    /\ result.arg.cost = [energy |-> I(2), output |-> I(-1)]
    /\ resources.energy = 0

\* a validated cost map (non-negative integers) and a non-negative multiplier
ValidCost(cost) == \A r \in DOMAIN cost : nonNegativeIntegerSchema(cost[r])

Times == {StartTime + k * ClockStep : k \in 0..MaxClockSteps}

\* the phase policy, from the entry's fields alone
PhaseByPolicy(hasEntry, claimableAt, cooldownTill, t) ==
    CASE ~hasEntry -> "idle"
      [] hasEntry /\ claimableAt > 0 /\ claimableAt > t -> "inProgress"
      [] hasEntry /\ claimableAt > 0 /\ claimableAt <= t -> "claimable"
      [] hasEntry /\ ~(claimableAt > 0) /\ cooldownTill > t -> "cooldown"
      [] hasEntry /\ ~(claimableAt > 0) /\ cooldownTill <= t -> "idle"

\* C3: the phase of an operation is a function of its progress entry and the
\* instant alone: Idle without an entry; with claimableAt > 0, InProgress
\* while claimableAt > now and Claimable from claimableAt on; otherwise
\* Cooldown while cooldownTill > now and Idle from cooldownTill on
PhaseIsPolicy ==
    \A id \in OperationIds, t \in Times :
        LET has == id \in DOMAIN operationsProgress
            entry == operationsProgress[id]
        IN  getOperationPhase(progressOf(Cur, id), t) =
               PhaseByPolicy(has, IF has THEN entry.claimableAt ELSE 0,
                             IF has THEN entry.cooldownTill ELSE 0, t)

\* an operation is claimable at the very instant claimableAt while another
\* one cools down, the tick counter having advanced
PhaseBoundary ==
    /\ \E id \in DOMAIN operationsProgress :
          operationsProgress[id].claimableAt = now
    /\ \E id \in DOMAIN operationsProgress :
          getOperationPhase(operationsProgress[id], now) = "cooldown"
    /\ tick > 0

\* C7: every progress entry reachable through conductOperation and
\* claimOperation has cooldownTill >= claimableAt
CooldownCoversDuration ==
    \A id \in DOMAIN operationsProgress :
        operationsProgress[id].cooldownTill >= operationsProgress[id].claimableAt

\* one operation runs with its cooldown ending after its duration, another
\* one has been claimed
EntriesStartedAndClaimed ==
    /\ \E id \in DOMAIN operationsProgress :
          /\ operationsProgress[id].claimableAt > 0
          /\ operationsProgress[id].cooldownTill > operationsProgress[id].claimableAt
    /\ \E id \in DOMAIN operationsProgress :
          /\ operationsProgress[id].claimableAt = 0
          /\ Get(operationsFinished, id, 0) > 0

\* what conductOperation requires of resource r for an operation
RequiredFor(operation, r) ==
    Ceil(RMul(RMul(I(operation.cost[r]), operationScaleFactor[operation.rarity]),
              RInv(RMax(getMultipliers(Cur, "operationCostReduction"), R(1, 1000)))))

\* C8: conductOperation requires of every resource of the cost a balance of
\* ceil(cost * rarityScale * 1/max(costReduction, 0.001)); when a resource
\* is short the call fails (for insufficient resources unless the cooldown
\* is reported first) and no resource counter, progress entry, completion
\* counter, dirty flag or wake timer changes
ConductNeedsScaledCost ==
    [][\A id \in OperationIds :
          (/\ IsCall("conductOperation")
           /\ ConductOperationCall(id)
           /\ \E r \in DOMAIN Operations[id].cost :
                 resources[r] < RequiredFor(Operations[id], r)) =>
          /\ result'.err # ""
          /\ progressOf(Cur, id) = NoProgress \/ progressOf(Cur, id).cooldownTill <= now
                => result'.err = "Insufficient resources"
          /\ UNCHANGED <<resources, operationsProgress, operationsFinished, dirty,
                         timeoutId, timeouts>>]_vars

\* SURVEY (cost 10 output and 5 energy, scale 1.2, no reduction) has been
\* declined on a balance that covers the base cost but not the required 6
\* of energy
DeclinedBelowScaledCost ==
    /\ result.call = "conductOperation"
    /\ result.arg = "survey"
    /\ result.err = "Insufficient resources"
    /\ resources.energy = 5
    /\ resources.output >= 10
    /\ getMultipliers(Cur, "operationCostReduction") = I(1)

\* C9: conductOperation fails for an operation in the Cooldown phase, reports
\* ceil((cooldownTill - now) / 1000) seconds, spends nothing and leaves the
\* progress entry as it is
ConductRefusedInCooldown ==
    [][\A id \in OperationIds :
          (/\ IsCall("conductOperation")
           /\ ConductOperationCall(id)
           /\ getOperationPhase(progressOf(Cur, id), now) = "cooldown") =>
          /\ result'.err = "is on cooldown"
          /\ result'.info = Ceil(R(operationsProgress[id].cooldownTill - now, 1000))
          /\ resources' = resources
          /\ operationsProgress' = operationsProgress]_vars

\* half a second of cooldown is left and one second has been reported
CooldownReported ==
    /\ result.call = "conductOperation"
    /\ result.err = "is on cooldown"
    /\ result.info = 1
    /\ operationsProgress[result.arg].claimableAt = 0
    /\ operationsProgress[result.arg].cooldownTill - now = ClockStep

\* C10: claimOperation succeeds only in the Claimable phase, fails as not
\* yet claimable in InProgress and as already claimed in Cooldown and Idle,
\* and a failure leaves completion counters, resources, active bonuses and
\* progress as they are
ClaimFailsByPhase ==
    [][\A id \in OperationIds :
          (IsCall("claimOperation") /\ ClaimOperationCall(id)) =>
          LET phase == getOperationPhase(progressOf(Cur, id), now) IN
          /\ result'.err = "" => phase = "claimable"
          /\ phase = "inProgress" => result'.err = "is not yet claimable"
          /\ phase \in {"cooldown", "idle"} => result'.err = "has already been claimed"
          /\ result'.err # "" =>
                UNCHANGED <<operationsFinished, resources, activeBonuses,
                            operationsProgress>>]_vars

\* a claimed operation in its cooldown has been claimed again, and the call
\* has failed as one that could not be claimed
ClaimedAgainInCooldown ==
    /\ result.call = "claimOperation"
    /\ result.err = "could not be claimed"
    /\ getOperationPhase(progressOf(Cur, result.arg), now) = "cooldown"
    /\ Get(operationsFinished, result.arg, 0) = 1

(***************************************************************************)
(* Persistence: the gate, save and load                                    *)
(***************************************************************************)
\* play with one operation, and the calls of the persistence coordinator
NextSync ==
    \/ Tick
    \/ Wake
    \/ AddGameResource
    \/ ConductOperationCall("survey")
    \/ ClaimOperationCall("survey")
    \/ SaveCall
    \/ SaveResume
    \/ LoadCall
    \/ LoadResume
    \/ ResetCall

SpecSync == Init /\ [][NextSync]_vars

\* C4: the gate admits at most one save or load in flight: a save() with
\* dirty state, a load() or a reset() made while the gate is saving or
\* loading is rejected with an error and changes neither the in-memory
\* state, the dirty flags, lastSave nor the storage entry
GateAdmitsOne ==
    [][/\ Len(flows') <= 1
       /\ syncState' = "idle" <=> flows' = << >>
       /\ (/\ syncState \in {"saving", "loading"}
           /\ \/ IsCall("save") /\ dirty # {} /\ SaveCall
              \/ IsCall("load") /\ LoadCall
              \/ IsCall("reset") /\ ResetCall) =>
          /\ result'.err # ""
          /\ UNCHANGED <<memory, dirty, lastSave, storage, syncState, flows>>]_vars

\* a load() has been rejected while a save of changed state was in flight
LoadRejectedWhileSaving ==
    /\ result.call = "load"
    /\ result.err = "Cannot load while state is not idle"
    /\ syncState = "saving"
    /\ Len(flows) = 1
    /\ resources # InitialResources

\* C5: a load() made while a dirty flag is set fails and leaves the in-memory
\* state of every sub-store, the dirty set and the storage entry as they
\* are, also when storage holds a valid snapshot; the gate is idle afterwards
LoadKeepsDirtyState ==
    [][(dirty # {} /\ IsCall("load") /\ (LoadCall \/ LoadResume)) =>
          /\ UNCHANGED <<memory, dirty, storage>>
          /\ result'.ret \in {Undefined, Pending}
          /\ (syncState = "loading" /\ LoadResume) =>
                /\ syncState' = "idle"
                /\ result'.ret = Undefined
                /\ Head(flows).data.item =>
                      result'.log = "Cannot load snapshot while store state is dirty"]_vars

\* a load() has failed for dirty state over a valid snapshot that differs
\* from the state in memory
DirtyLoadFailed ==
    /\ result.call = "load"
    /\ result.log = "Cannot load snapshot while store state is dirty"
    /\ syncState = "idle"
    /\ dirty # {}
    /\ storage.item
    /\ gameSaveSchema(parse(storage.text))
    /\ parse(storage.text).resources # resources

\* an instant at which save() is not debounced
SaveTime ==
    IF now - lastSave > localSaveInterval THEN now ELSE lastSave + localSaveInterval + 1

\* save() at SaveTime and then load(), each run to its end, from the state
RoundTrip ==
    LET saving == saveBegin(Cur, SaveTime, TRUE).s
        saved == saveResume(saving, Head(saving.flows)).s
        loading == loadBegin(saved).s
    IN  loadResume(loading, Head(loading.flows), SaveTime)

\* C6: from every reachable state, a successful save() followed at once by
\* a successful load() leaves the four resource counters, the
\* operationsProgress map and the operationsFinished counters as they were
\* at the save, and load() returns the timestamp of the snapshot
SaveLoadRoundTrip ==
    (syncState = "idle" /\ dirty # {}) =>
        /\ RoundTrip.ret = NumV(I(SaveTime))
        /\ RoundTrip.s.storage.item
        /\ parse(RoundTrip.s.storage.text).timestamp = SaveTime
        /\ RoundTrip.s.resources = resources
        /\ RoundTrip.s.operationsProgress = operationsProgress
        /\ RoundTrip.s.operationsFinished = operationsFinished

\* a game with a claimed operation has been saved and loaded back
LoadedWhatWasSaved ==
    /\ result.call = "load"
    /\ result.ret = NumV(I(lastSave))
    /\ lastSave = parse(storage.text).timestamp
    /\ dirty = {}
    /\ resources.money > 0
    /\ operationsProgress # EmptyMap
    /\ Get(operationsFinished, "survey", 0) = 1
    /\ parse(storage.text).resources = resources

(***************************************************************************)
(* Effects of claims and conducts                                          *)
(***************************************************************************)
\* C11: a successful claimOperation adds exactly 1 to the completion counter
\* of the operation, sets claimableAt to 0 and keeps cooldownTill, so that
\* the phase is then Cooldown if cooldownTill > now and Idle otherwise, and
\* a second claim, now or later, fails
ClaimCountsAndClears ==
    [][\A id \in OperationIds :
          (/\ IsCall("claimOperation")
           /\ ClaimOperationCall(id)
           /\ result'.err = "") =>
          /\ operationsFinished'[id] = Get(operationsFinished, id, 0) + 1
          /\ \A other \in DOMAIN operationsFinished \ {id} :
                operationsFinished'[other] = operationsFinished[other]
          /\ operationsProgress'[id].claimableAt = 0
          /\ operationsProgress'[id].cooldownTill = operationsProgress[id].cooldownTill
          /\ getOperationPhase(operationsProgress'[id], now) =
                IF operationsProgress[id].cooldownTill > now THEN "cooldown" ELSE "idle"
          /\ \A t \in Times :
                t >= now => claimOperation(Cur', Operations[id], t).err # ""]_vars

\* SURVEY has been claimed and cools down, the counter of DIVE, claimed
\* before, being what it was
ClaimedTwiceCounted ==
    /\ result.call = "claimOperation"
    /\ result.err = ""
    /\ result.arg = "survey"
    /\ operationsFinished["survey"] = 1
    /\ operationsProgress["survey"].claimableAt = 0
    /\ operationsProgress["survey"].cooldownTill > now
    /\ "dive" \in DOMAIN operationsFinished

\* the duration of an operation in seconds: duration / max(reduction, 0.001)
DurationOf(operation) ==
    RMul(I(operation.duration),
         RInv(RMax(getMultipliers(Cur, "operationDurationReduction"), R(1, 1000))))

\* C12: a successful conductOperation with computed duration d > 0 replaces
\* the progress entry with claimableAt = now + d*1000 and cooldownTill =
\* now + (d + cooldown)*1000, deducts the scaled cost, marks operations
\* dirty and returns d
ConductStartsEntry ==
    [][\A id \in OperationIds :
          (/\ IsCall("conductOperation")
           /\ ConductOperationCall(id)
           /\ result'.err = ""
           /\ DurationOf(Operations[id]).n > 0) =>
          LET d == DurationOf(Operations[id])
              entry == operationsProgress'[id]
          IN  /\ DOMAIN entry = {"claimableAt", "cooldownTill"}
              /\ (entry.claimableAt - now) * d.d = d.n * 1000
              /\ (entry.cooldownTill - now) * d.d =
                    (d.n + Operations[id].cooldown * d.d) * 1000
              /\ \A r \in Resource :
                    resources'[r] =
                       IF r \in DOMAIN Operations[id].cost
                       THEN resources[r] - RequiredFor(Operations[id], r)
                       ELSE resources[r]
              /\ "operations" \in dirty'
              /\ result'.ret.type = "number"
              /\ REq(result'.ret.q, d)]_vars

\* SURVEY has been conducted again after its first run, with the upgrade
\* that halves durations: half a second is returned
ConductedAgainHalved ==
    /\ result.call = "conductOperation"
    /\ result.arg = "survey"
    /\ result.ret = NumV(R(1, 2))
    /\ Get(operationsFinished, "survey", 0) = 1
    /\ operationsProgress["survey"].claimableAt > 0
    /\ operationsProgress["survey"].cooldownTill
          = operationsProgress["survey"].claimableAt + 1000

(***************************************************************************)
(* The life of one operation: TRAWL (duration 1 s, cooldown 2 s) is        *)
(* conducted once, time passes, and the only other call is claimOperation. *)
(***************************************************************************)
TickLife ==
    /\ now + ClockStep <= LifeEnd
    /\ now' = now + ClockStep
    /\ UNCHANGED <<memory, syncState, lastSave, dirty, storage, flows, result>>

ConductOnce ==
    /\ progressOf(Cur, "trawl") = NoProgress
    /\ ConductOperationCall("trawl")

NextLife ==
    \/ TickLife
    \/ Wake
    \/ AddResourceCall("energy", I(6))
    \/ ConductOnce
    \/ ClaimOperationCall("trawl")

SpecLife == Init /\ [][NextLife]_vars

\* the phase of TRAWL now, and after the step
PhaseNow == getOperationPhase(progressOf(Cur, "trawl"), now)
PhaseNext == getOperationPhase(progressOf(Cur', "trawl"), now')

\* Claimable lasts until a successful claim, however much time passes
ClaimableUntilClaimed ==
    (PhaseNow = "claimable" /\ PhaseNext # "claimable") =>
        (IsCall("claimOperation") /\ ClaimOperationCall("trawl") /\ result'.err = "")

\* C13 as stated: the phases of an operation conducted once and claimed
\* once occur in the order Idle, InProgress, Claimable, Cooldown, Idle, none
\* skipped or revisited, and Claimable lasts until the claim
LifecycleInOrder ==
    [][/\ PhaseNow # PhaseNext =>
             <<PhaseNow, PhaseNext>> \in
                {<<"idle", "inProgress">>, <<"inProgress", "claimable">>,
                 <<"claimable", "cooldown">>, <<"cooldown", "idle">>}
       /\ ClaimableUntilClaimed
       /\ (PhaseNow = "idle" /\ progressOf(Cur, "trawl") # NoProgress) =>
             PhaseNext = "idle"]_vars

\* C13, amended: the same order, except that a claim made when cooldownTill
\* has already passed leads from Claimable to Idle at once, Cooldown being
\* skipped; a claim made before cooldownTill leads to Cooldown
LifecycleInOrderOrLate ==
    [][/\ PhaseNow # PhaseNext =>
             \/ <<PhaseNow, PhaseNext>> \in
                   {<<"idle", "inProgress">>, <<"inProgress", "claimable">>,
                    <<"cooldown", "idle">>}
             \/ /\ PhaseNow = "claimable"
                /\ PhaseNext =
                      IF operationsProgress["trawl"].cooldownTill > now
                      THEN "cooldown" ELSE "idle"
       /\ ClaimableUntilClaimed
       /\ (PhaseNow = "idle" /\ progressOf(Cur, "trawl") # NoProgress) =>
             PhaseNext = "idle"]_vars

\* TRAWL, claimed in time, has cooled down and is Idle again, its cooldown
\* over and its entry kept
LifeCompleted ==
    /\ progressOf(Cur, "trawl") # NoProgress
    /\ operationsProgress["trawl"].claimableAt = 0
    /\ operationsProgress["trawl"].cooldownTill = now
    /\ Get(operationsFinished, "trawl", 0) = 1
    /\ PhaseNow = "idle"
    /\ tick >= 2

(***************************************************************************)
(* The wake timer: two operations, the timer, snapshots and resets         *)
(***************************************************************************)
TimedIds == {"trawl", "dive"}

\* A save whose storage write is accepted.
SaveStored == Call("save", "", saveBegin(Cur, now, TRUE))

NextTimer ==
    \/ Tick
    \/ Wake
    \/ AddResourceCall("energy", I(6))
    \/ \E id \in TimedIds : ConductOperationCall(id)
    \/ \E id \in TimedIds : ClaimOperationCall(id)
    \/ SaveStored
    \/ SaveResume
    \/ LoadCall
    \/ LoadResume

SpecTimer == Init /\ [][NextTimer]_vars

\* the steps after which scheduleNextTick has run: a successful conduct or
\* claim, a snapshot load that went through, and the callback of the timer
Rescheduled ==
    \/ /\ IsCall("conductOperation")
       /\ \E id \in OperationIds : ConductOperationCall(id)
       /\ result'.err = ""
    \/ /\ IsCall("claimOperation")
       /\ \E id \in OperationIds : ClaimOperationCall(id)
       /\ result'.err = ""
    \/ /\ IsCall("load")
       /\ LoadResume
       /\ result'.ret.type = "number"
    \/ /\ tick' = tick + 1
       /\ Wake

\* the claimableAt and cooldownTill values of the entries that lie after t
FutureValues(progress, t) ==
    {progress[id].claimableAt : id \in {i \in DOMAIN progress : progress[i].claimableAt > t}}
    \cup {progress[id].cooldownTill : id \in {i \in DOMAIN progress : progress[i].cooldownTill > t}}

\* some claimed entry is still cooling down at t
CoolingDown(progress, t) ==
    \E id \in DOMAIN progress :
        progress[id].cooldownTill > t /\ progress[id].claimableAt = 0

NextReset ==
    \/ Tick
    \/ Wake
    \/ AddResourceCall("energy", I(6))
    \/ \E id \in TimedIds : ConductOperationCall(id)
    \/ \E id \in TimedIds : ClaimOperationCall(id)
    \/ ResetCall
    \/ ResetForPrestigeCall

SpecReset == Init /\ [][NextReset]_vars

\* the steps of reset() and resetForPrestige()
Cleared ==
    \/ IsCall("reset") /\ ResetCall /\ result'.err = ""
    \/ IsCall("resetForPrestige") /\ ResetForPrestigeCall

\* C15: when no entry has a future claimableAt or cooldownTill at the time
\* the timer is recomputed, no wake timer is pending afterwards; reset() and
\* resetForPrestige() leave no entry and no pending timer
NoTimerWithoutFuture ==
    [][/\ (Rescheduled \/ Cleared) =>
             (FutureValues(operationsProgress', now) = {} =>
                 timeouts' = {} /\ timeoutId' = 0)
       /\ Cleared =>
             /\ operationsProgress' = EmptyMap
             /\ timeouts' = {}
             /\ timeoutId' = 0]_vars

\* resetForPrestige() at the start time, after operations were conducted
\* (energy is granted by sixes, 1 is left only after spending): the timer
\* that was set for them is gone
TimerGoneAfterPrestige ==
    /\ result.call = "resetForPrestige"
    /\ now = StartTime
    /\ resources["energy"] = 1
    /\ operationsProgress = EmptyMap
    /\ timeouts = {}
    /\ timeoutId = 0

(***************************************************************************)
(* The gate of the persistence coordinator under a fair scheduler          *)
(***************************************************************************)
NextGate ==
    \/ Tick
    \/ AddResourceCall("energy", I(6))
    \/ SaveCall
    \/ SaveResume
    \/ LoadCall
    \/ LoadResume

\* the host settles every pending promise: a suspended save() or load() is
\* resumed
SpecGate ==
    /\ Init
    /\ [][NextGate]_vars
    /\ WF_vars(SaveResume)
    /\ WF_vars(LoadResume)

\* C16: every save() and load() that takes the gate gives it back, whether
\* it succeeds or fails; a save whose storage write fails leaves the dirty
\* set and lastSave as they were
GateReturnsToIdle ==
    /\ (syncState # "idle") ~> (syncState = "idle")
    /\ [][(/\ IsCall("save")
           /\ SaveResume
           /\ result'.err # "") =>
             /\ syncState' = "idle"
             /\ dirty' = dirty
             /\ dirty' # {}
             /\ lastSave' = lastSave]_vars

\* a save whose write failed has ended: the gate is idle again and the
\* resources are still to be saved
FailedSaveReleasedGate ==
    /\ result.call = "save"
    /\ result.err = "storage write failed"
    /\ syncState = "idle"
    /\ "resources" \in dirty
    /\ flows = << >>

(***************************************************************************)
(* The debounce of save()                                                  *)
(***************************************************************************)
\* a whole save interval passes
Wait ==
    /\ now + localSaveInterval <= StartTime + MaxWaits * localSaveInterval
    /\ now' = now + localSaveInterval
    /\ UNCHANGED <<memory, syncState, lastSave, dirty, storage, flows, result>>

\* the condition under which GameStore.loop, run at time t, invokes save()
loopSaves(s, t) == t - s.lastSave >= localSaveInterval

NextDebounce ==
    \/ Tick
    \/ Wait
    \/ AddResourceCall("energy", I(6))
    \/ SaveCall
    \/ SaveResume

SpecDebounce == Init /\ [][NextDebounce]_vars

\* C17: with dirty state and an idle gate, save() proceeds to write if and
\* only if now - lastSave >= localSaveInterval, the condition under which the
\* game loop invokes save()
SaveProceedsAsLoopDecides ==
    [][(/\ IsCall("save")
        /\ SaveCall
        /\ dirty # {}
        /\ syncState = "idle") =>
          ((result'.ret = Pending) <=> loopSaves(Cur, now))]_vars

\* save() was called with dirty state, exactly one save interval after the
\* last save, and returned without writing
SkippedAtTheInterval ==
    /\ result.call = "save"
    /\ result.err = ""
    /\ result.ret = Undefined
    /\ dirty # {}
    /\ syncState = "idle"
    /\ lastSave >= StartTime
    /\ now - lastSave = localSaveInterval
    /\ parse(storage.text).timestamp = lastSave

\* C18: save() called while no dirty flag is set does nothing, whatever the
\* gate state: storage, lastSave, the dirty set, the gate and the stores are
\* unchanged and the call does not fail
CleanSaveIsNoOp ==
    [][(/\ IsCall("save")
        /\ SaveCall
        /\ dirty = {}) =>
          /\ UNCHANGED <<memory, syncState, lastSave, dirty, storage, flows>>
          /\ result'.err = ""
          /\ result'.ret = Undefined]_vars

\* save() has returned quietly while a load was in flight and nothing was
\* dirty
CleanSaveWhileLoading ==
    /\ result.call = "save"
    /\ result.err = ""
    /\ result.ret = Undefined
    /\ dirty = {}
    /\ syncState = "loading"
    /\ flows # << >>

\* the snapshot holds the state of every store of STORES_TO_SYNC
SnapshotOfStores(snapshot) ==
    /\ snapshot.resources = resources
    /\ snapshot.workers.hiredWorkers = hiredWorkers
    /\ snapshot.operations.operationsFinished = operationsFinished
    /\ snapshot.operations.operationsProgress = operationsProgress
    /\ snapshot.operations.activeBonuses = activeBonuses
    /\ SeqToSet(snapshot.codex.unlockedArticles) = unlockedArticles
    /\ snapshot.level = level
    /\ snapshot.upgrades.unlockedUpgrades = unlockedUpgrades
    /\ snapshot.achievements.totalArticlesOpened = achievements.totalArticlesOpened
    /\ snapshot.achievements.operationsCompleted = achievements.operationsCompleted
    /\ SeqToSet(snapshot.achievements.unlockedAchievements) =
          achievements.unlockedAchievements
    /\ snapshot.prestige = prestige

\* C19: a save() that proceeds and whose write is accepted puts in storage a
\* snapshot of every participating store as of the start of the save, stamped
\* with the time of the call; when it completes, the dirty set is emptied and
\* lastSave is the timestamp of that snapshot
SaveWritesSnapshot ==
    [][/\ (/\ IsCall("save")
           /\ SaveCall
           /\ result'.ret = Pending
           /\ flows'[Len(flows')].ok) =>
             /\ storage'.item
             /\ parse(storage'.text).timestamp = now
             /\ SnapshotOfStores(parse(storage'.text))
             /\ UNCHANGED memory
       /\ (/\ IsCall("save")
           /\ SaveResume
           /\ result'.err = "") =>
             /\ storage' = storage
             /\ storage.item
             /\ parse(storage.text).timestamp = Head(flows).now
             /\ lastSave' = parse(storage.text).timestamp
             /\ dirty' = {}
             /\ syncState' = "idle"]_vars

\* a save has completed; the resources moved while it was in flight, the
\* snapshot holds them as they were when it started
SavedAsOfTheStart ==
    /\ result.call = "save"
    /\ result.err = ""
    /\ result.ret = Undefined
    /\ syncState = "idle"
    /\ dirty = {}
    /\ storage.item
    /\ lastSave = parse(storage.text).timestamp
    /\ lastSave = now
    /\ parse(storage.text).operations.operationsProgress # EmptyMap
    /\ parse(storage.text).operations.operationsProgress = operationsProgress
    /\ parse(storage.text).resources # resources

(***************************************************************************)
(* Loading what the game did not write                                     *)
(***************************************************************************)
\* a snapshot of the state that the schema rejects: a negative counter
InvalidSnapshot ==
    stringify([getSnapshot(Cur, now) EXCEPT !.resources["energy"] = -1])

\* the storage of the host is changed from outside the game: the item is
\* removed, cut short, or replaced by a snapshot of another shape
StorageChanged ==
    /\ \E item \in {NoItem, Item(Truncated), Item(InvalidSnapshot)} :
          /\ storage # item
          /\ storage' = item
    /\ UNCHANGED <<now, memory, syncState, lastSave, dirty, flows, result>>

NextForeign ==
    \/ Tick
    \/ AddResourceCall("energy", I(6))
    \/ SaveCall
    \/ SaveResume
    \/ LoadCall
    \/ LoadResume
    \/ StorageChanged

SpecForeign == Init /\ [][NextForeign]_vars

\* what load() has read is absent, not JSON, or rejected by gameSaveSchema
Unusable(data) ==
    \/ ~data.item
    \/ ~isJSON(data.text)
    \/ ~gameSaveSchema(parse(data.text))

\* C20: when what load() reads from storage is absent, unparsable or
\* schema-invalid, load() does not throw, returns no timestamp, leaves every
\* store, the dirty set, lastSave and storage as they were, and the gate is
\* idle again
UnusableSnapshotIgnored ==
    [][(/\ IsCall("load")
        /\ LoadResume
        /\ Unusable(Head(flows).data)) =>
          /\ result'.err = ""
          /\ result'.ret = Undefined
          /\ UNCHANGED <<memory, dirty, lastSave, storage>>
          /\ syncState' = "idle"
          /\ flows' = << >>]_vars

\* load() has ended on a schema-invalid snapshot: the failure is logged, the
\* energy granted before is still there and the gate is idle
InvalidSnapshotLogged ==
    /\ result.call = "load"
    /\ result.err = ""
    /\ result.ret = Undefined
    /\ result.log = "Failed to load save data"
    /\ syncState = "idle"
    /\ storage.item
    /\ isJSON(storage.text)
    /\ ~gameSaveSchema(parse(storage.text))
    /\ resources["energy"] = 6
    /\ dirty = {}

(***************************************************************************)
(* reset()                                                                 *)
(***************************************************************************)
\* C21: SyncStore.reset() with an idle gate puts every participating store
\* in its initial state (the four counters 0, no progress entry, no
\* completion counter, no active bonus, no wake timer pending) and removes
\* the storage entry; with a gate that is not idle it fails and changes
\* nothing
ResetClearsOrFails ==
    [][(IsCall("reset") /\ ResetCall) =>
          IF syncState = "idle"
          THEN /\ result'.err = ""
               /\ \A r \in Resource : resources'[r] = 0
               /\ operationsProgress' = EmptyMap
               /\ operationsFinished' = EmptyMap
               /\ activeBonuses' = << >>
               /\ timeouts' = {}
               /\ timeoutId' = 0
               /\ hiredWorkers' = EmptyMap
               /\ unlockedArticles' = {}
               /\ level' = InitialLevel
               /\ unlockedUpgrades' = EmptyMap
               /\ achievements' = InitialAchievements
               /\ prestige' = InitialPrestige
               /\ storage' = NoItem
               /\ syncState' = "idle"
          ELSE /\ result'.err = "Cannot reset while state is not idle"
               /\ UNCHANGED <<memory, syncState, lastSave, dirty, storage, flows>>]_vars

\* reset() has gone through after a save had written the game: the entry is
\* gone from storage and the counters are 0
ResetAfterSave ==
    /\ result.call = "reset"
    /\ result.err = ""
    /\ lastSave >= StartTime
    /\ storage = NoItem
    /\ \A r \in Resource : resources[r] = 0
    /\ operationsProgress = EmptyMap
    /\ timeouts = {}

(***************************************************************************)
(* Loading after time away                                                 *)
(***************************************************************************)
\* what the documentation promises for time away: the rate per round, times
\* the rounds in the time elapsed (at most maxOfflineTime), times
\* offlineMultiplier
OfflineGain(rate, elapsed) ==
    RMul(RMul(I(rate), R(Min({elapsed, maxOfflineTime}), gameRoundInterval)),
         offlineMultiplier)

\* C22: a load() that goes through adds to energy, output and money what
\* their steady rates produce in min(now - snapshot.timestamp, maxOfflineTime)
\* at the offline efficiency
OfflineTimeCredited ==
    [][(/\ IsCall("load")
        /\ LoadResume
        /\ result'.ret.type = "number") =>
          LET snapshot == parse(Head(flows).data.text)
              elapsed == now - snapshot.timestamp
          IN  /\ REq(I(resources'["energy"] - snapshot.resources["energy"]),
                     OfflineGain(energyPerRound(Cur'), elapsed))
              /\ REq(I(resources'["output"] - snapshot.resources["output"]),
                     OfflineGain(outputPerRound(Cur'), elapsed))
              /\ REq(I(resources'["money"] - snapshot.resources["money"]),
                     OfflineGain(moneyPerRound(Cur'), elapsed))]_vars

\* a snapshot has been loaded a second or more after it was written, and the
\* counters are those of the snapshot although energy is produced every round
LoadedWithoutCredit ==
    /\ result.call = "load"
    /\ storage.item
    /\ result.ret = NumV(I(parse(storage.text).timestamp))
    /\ now - parse(storage.text).timestamp >= gameRoundInterval
    /\ energyPerRound(Cur) >= 1
    /\ resources = parse(storage.text).resources

\* C23: a load() that goes through leaves every progress entry, every active
\* bonus and every completion counter exactly as the snapshot holds them; an
\* entry whose claimableAt has passed by then is Claimable, neither claimed
\* nor Idle
LoadKeepsOperations ==
    [][(/\ IsCall("load")
        /\ LoadResume
        /\ result'.ret.type = "number") =>
          LET saved == parse(Head(flows).data.text).operations IN
          /\ operationsProgress' = saved.operationsProgress
          /\ activeBonuses' = saved.activeBonuses
          /\ operationsFinished' = saved.operationsFinished
          /\ \A id \in DOMAIN saved.operationsProgress :
                LET e == saved.operationsProgress[id] IN
                (e.claimableAt > 0 /\ e.claimableAt <= now) =>
                   /\ getOperationPhase(progressOf(Cur', id), now) = "claimable"
                   /\ Get(operationsFinished', id, 0) =
                         Get(saved.operationsFinished, id, 0)]_vars

\* SURVEY was saved in progress and loaded after it had become claimable
LoadedClaimable ==
    /\ result.call = "load"
    /\ result.ret.type = "number"
    /\ storage.item
    /\ "survey" \in DOMAIN operationsProgress
    /\ parse(storage.text).timestamp < operationsProgress["survey"].claimableAt
    /\ operationsProgress["survey"].claimableAt <= now
    /\ getOperationPhase(progressOf(Cur, "survey"), now) = "claimable"
    /\ Get(operationsFinished, "survey", 0) = 0

(***************************************************************************)
(* Rounds of production                                                    *)
(***************************************************************************)
RoundEnd == StartTime + MaxRoundSteps * ClockStep

TickRound ==
    /\ now + ClockStep <= RoundEnd
    /\ now' = now + ClockStep
    /\ UNCHANGED <<memory, syncState, lastSave, dirty, storage, flows, result>>

\* DRIFT is played between the rounds; reputation is granted from outside
\* and a worker is handed out, so that every rate can be positive
NextRound ==
    \/ TickRound
    \/ Wake
    \/ RoundCall
    \/ AddWorkersCall("diver", 1)
    \/ AddResourceCall("reputation", I(12))
    \/ ConductOperationCall("drift")
    \/ ClaimOperationCall("drift")

SpecRound == Init /\ [][NextRound]_vars

\* C24: within one round() at time now, the bonuses with expiresAt <= now
\* are removed before any rate is computed, so that energy, output and money
\* grow by the rates the remaining bonuses give; a rate is added only when
\* it is >= 1, and a round in which the three rates are 0 changes no counter
\* and does not mark "resources" dirty
RoundAfterExpiry ==
    [][(IsCall("round") /\ RoundCall) =>
          LET live == [Cur EXCEPT !.activeBonuses =
                          SelectSeq(@, LAMBDA ab : ab.expiresAt > now)]
              gain(rate) == IF rate >= 1 THEN rate ELSE 0
          IN  /\ activeBonuses' = live.activeBonuses
              /\ resources'["energy"] = resources["energy"] + gain(energyPerRound(live))
              /\ resources'["output"] = resources["output"] + gain(outputPerRound(live))
              /\ resources'["money"] = resources["money"] + gain(moneyPerRound(live))
              /\ resources'["reputation"] = resources["reputation"]
              /\ (/\ energyPerRound(live) = 0
                  /\ outputPerRound(live) = 0
                  /\ moneyPerRound(live) = 0) =>
                     /\ resources' = resources
                     /\ ("resources" \in dirty') <=> ("resources" \in dirty)]_vars

\* the round that removed the bonus of DRIFT, expired by then, has added the
\* 10 energy of a round to the 4 left after the conduct; the rounds before
\* it, with the bonus in force, had added none
RoundAfterDriftBonus ==
    /\ result.call = "round"
    /\ now >= StartTime + 2000
    /\ Get(operationsFinished, "drift", 0) = 1
    /\ operationsProgress["drift"].claimableAt = 0
    /\ activeBonuses = << >>
    /\ hiredWorkers = EmptyMap
    /\ resources["energy"] = 14

\* a round with the bonus of DRIFT in force, no worker and no reputation:
\* the three rates are 0 and the counters are untouched
IdleRound ==
    /\ result.call = "round"
    /\ activeBonuses # << >>
    /\ energyPerRound(Cur) = 0
    /\ outputPerRound(Cur) = 0
    /\ moneyPerRound(Cur) = 0

(***************************************************************************)
(* actOnOperation, the one entry point of a player who only ever acts      *)
(***************************************************************************)
ActIds == {"trawl", "dive"}

NextAct ==
    \/ TickLife
    \/ Wake
    \/ AddResourceCall("energy", I(6))
    \/ \E id \in ActIds : ActOnOperationCall(id)

SpecAct == Init /\ [][NextAct]_vars

\* the step leaves the stores, the timer and the dirty flags as outcome o has
\* them, and the call reports what o reports
Performs(o) ==
    /\ Cur' = o.s
    /\ result'.err = o.err
    /\ result'.info = o.info

\* C27: actOnOperation(op) dispatches on the phase of op at the call: a
\* claimable operation is claimed (its counter grows by one, its claimableAt
\* is cleared, everything is as claimOperation leaves it) and 0 is returned;
\* an idle operation is conducted and the call returns, or fails with, what
\* conductOperation does; an operation in progress or in cooldown makes the
\* call fail with the error of that phase, and nothing changes
ActDispatchesOnPhase ==
    [][\A id \in ActIds :
          (IsCall("actOnOperation") /\ ActOnOperationCall(id)) =>
          LET phase == getOperationPhase(progressOf(Cur, id), now) IN
          /\ phase = "claimable" =>
                /\ Performs(claimOperation(Cur, Operations[id], now))
                /\ result'.err = ""
                /\ result'.ret = NumV(I(0))
                /\ operationsFinished'[id] = Get(operationsFinished, id, 0) + 1
                /\ operationsProgress'[id].claimableAt = 0
          /\ phase = "idle" =>
                /\ Performs(conductOperation(Cur, Operations[id], now))
                /\ result'.ret = conductOperation(Cur, Operations[id], now).ret
          /\ phase = "inProgress" =>
                /\ result'.err = "is already in progress"
                /\ Cur' = Cur
          /\ phase = "cooldown" =>
                /\ result'.err = "is in cooldown"
                /\ Cur' = Cur]_vars

\* a dive conducted, claimed and conducted again, all through actOnOperation
ActedThroughAllPhases ==
    /\ result.call = "actOnOperation"
    /\ result.arg = "dive"
    /\ result.err = ""
    /\ result.ret = NumV(I(2))
    /\ Get(operationsFinished, "dive", 0) = 1

(***************************************************************************)
(* An operation without duration                                           *)
(***************************************************************************)
NextFlash ==
    \/ TickLife
    \/ Wake
    \/ AddResourceCall("energy", I(6))
    \/ PurchaseUpgradeCall("fastBoat")
    \/ ConductOperationCall("flash")
    \/ ClaimOperationCall("flash")

SpecFlash == Init /\ [][NextFlash]_vars

ClaimSalvage ==
    /\ Get(operationsFinished, "salvage", 0) < MaxClaims
    /\ ClaimOperationCall("salvage")

NextOrder ==
    \/ TickLife
    \/ Wake
    \/ AddResourceCall("energy", I(6))
    \/ ConductOperationCall("salvage")
    \/ ClaimSalvage

SpecOrder == Init /\ [][NextOrder]_vars

\* the place of a step in a list of steps, 0 when it is not there
Place(steps, name) ==
    IF \E i \in 1..Len(steps) : steps[i].step = name
    THEN CHOOSE i \in 1..Len(steps) : steps[i].step = name
    ELSE 0

\* C29: a claim of a claimable operation goes through its steps in this
\* order: the reputation reward, the output reward and the money reward where
\* there is one, the timed bonus where there is one, the unlocks of the
\* milestone articles against the new count, and only then the notification
\* of the achievement tracker.  A claim that succeeds leaves what the last
\* step leaves; its rewards are computed before its own bonus is on the list;
\* the tracker has not counted the claim in any state before the notification,
\* and the rewards are in the counters in every state from the unlocks on
ClaimStepsInOrder ==
    [][(/\ IsCall("claimOperation")
        /\ ClaimSalvage
        /\ getOperationPhase(progressOf(Cur, "salvage"), now) = "claimable") =>
       LET steps == claimSteps(Cur, Operations["salvage"], now)
           reputationGain == Ceil(RMul(I(Operations["salvage"].rewards.reputation),
                                       getMultipliers(Cur, "reputationGain")))
           moneyGain == Ceil(RMul(I(Operations["salvage"].rewards.money),
                                  getMultipliers(Cur, "moneyGain")))
           newCount == Get(operationsFinished, "salvage", 0) + 1
           notify == Place(steps, "notify")
       IN  /\ Cur' = steps[Len(steps)].s
           /\ Place(steps, "reputation") > 0
           /\ Place(steps, "reputation") < Place(steps, "money")
           /\ Place(steps, "money") < Place(steps, "bonus")
           /\ Place(steps, "bonus") < Place(steps, "unlocks")
           /\ \A i \in 1..Len(steps) :
                 /\ (notify = 0 \/ i < notify) =>
                       steps[i].s.achievements.operationsCompleted
                           = achievements.operationsCompleted
                 /\ i >= Place(steps, "unlocks") =>
                       /\ steps[i].s.resources.reputation
                             = resources.reputation + reputationGain
                       /\ steps[i].s.resources.money = resources.money + moneyGain
                       /\ Len(steps[i].s.activeBonuses) = Len(activeBonuses) + 1
                       /\ steps[i].s.operationsFinished["salvage"] = newCount
           /\ result'.err = "" =>
                 /\ Place(steps, "unlocks") < notify
                 /\ notify <= Len(steps)
                 /\ achievements'.operationsCompleted
                       = achievements.operationsCompleted + 1
                 /\ resources'.reputation = resources.reputation + reputationGain
                 /\ resources'.money = resources.money + moneyGain
                 /\ unlockedArticles' = unlockedArticles \cup
                       {u.id : u \in {v \in {Operations["salvage"].articlesUnlocks[j] :
                                 j \in 1..Len(Operations["salvage"].articlesUnlocks)} :
                                        v.level <= newCount}}]_vars

\* the second claim of the salvage has gone through: its reputation reward
\* was doubled by the bonus of the first claim, not by its own
SalvagedTwice ==
    /\ result.call = "claimOperation"
    /\ result.arg = "salvage"
    /\ result.err = ""
    /\ operationsFinished = [salvage |-> 2]
    /\ achievements.operationsCompleted = 2
    /\ resources.reputation = 3
    /\ Len(activeBonuses) = 2
    /\ unlockedArticles = {"a1"}

(***************************************************************************)
(* The game loop: started, stopped and started again, while a dive is      *)
(* under way and saves come and go.                                        *)
(***************************************************************************)
StartCall ==
    /\ ~running => /\ totalPlaytimeSeconds < MaxRounds * gameRoundInterval
                   /\ Len(loopTimers) < MaxLoops
    /\ Call("start", "", Returns(gameStart(Cur, now, TRUE), Undefined))

StopCall == Call("stop", "", Returns(gameStop(Cur, now, TRUE), Undefined))

\* a timer of the loop that is due fires; timers run after the pending
\* continuations of save() and load()
LoopFire ==
    /\ flows = << >>
    /\ loopTimers # << >>
    /\ Head(loopTimers) <= now
    /\ running => totalPlaytimeSeconds < MaxRounds * gameRoundInterval
    /\ Commit(gameLoop([Cur EXCEPT !.loopTimers = Tail(@)], now, TRUE))
    /\ UNCHANGED <<now, result>>

NextGame ==
    \/ TickLife
    \/ Wake
    \/ LoopFire
    \/ StartCall
    \/ StopCall
    \/ ConductOperationCall("dive")
    \/ SaveResume

SpecGame == Init /\ [][NextGame]_vars

\* what a round of some store changes
rounds == <<totalPlaytimeSeconds, level, achievements>>

\* C30: from stop() until the next start() no round of any store is run: no
\* step of a stopped game that leaves it stopped, and no stop(), advances the
\* playtime, reaches a level, unlocks an achievement or produces a resource,
\* and none sets a timer of the loop; and stop() leaves the wake timer of the
\* operations and the progress map as they are, and a save that is under way
\* as it is
StoppedLoopIsIdle ==
    [][/\ ~running' =>
             /\ UNCHANGED rounds
             /\ \A r \in Resource : resources'[r] <= resources[r]
             /\ loopTimers' = loopTimers
                   \/ (loopTimers # << >> /\ loopTimers' = Tail(loopTimers))
       /\ (IsCall("stop") /\ StopCall) =>
             /\ UNCHANGED <<timeoutId, timeouts, operationsProgress, resources, loopTimers>>
             /\ flows # << >> => UNCHANGED <<flows, syncState, storage, lastSave, dirty>>]_vars

\* the game was stopped while a dive was under way; the timer of the loop has
\* since fired and found the game stopped, the wake timer is still pending
StoppedWithPendingWake ==
    /\ result.call = "stop"
    /\ ~running
    /\ loopTimers = << >>
    /\ totalPlaytimeSeconds = gameRoundInterval
    /\ now >= StartTime + gameRoundInterval
    /\ "dive" \in DOMAIN operationsProgress
    /\ timeoutId # 0
    /\ timeoutId \in timeouts

(***************************************************************************)
(* spendResource                                                           *)
(***************************************************************************)
\* C26 as stated: spendResource(resource, amount) returns false and changes
\* no counter and no dirty flag when the balance is below amount; otherwise
\* it decrements the counter by exactly amount, marks 'resources' dirty and
\* returns true
SpendDeductsOrRefuses ==
    [][\A r \in Resource, a \in SpendAmounts :
          (IsCall("spendResource") /\ SpendResourceCall(r, a)) =>
          IF RLess(I(resources[r]), a)
          THEN /\ result'.ret = False
               /\ resources' = resources
               /\ dirty' = dirty
          ELSE /\ REq(I(resources'[r]), RAdd(I(resources[r]), R(-a.n, a.d)))
               /\ "resources" \in dirty'
               /\ result'.ret = True]_vars

\* C26, amended: spendResource(resource, amount) returns false and changes
\* no counter and no dirty flag when the balance is below amount; otherwise,
\* when amount is not a non-negative integer, it fails with a validation
\* error and changes no counter and no dirty flag; otherwise it decrements
\* the counter by exactly amount, leaves the other counters alone, marks
\* 'resources' dirty and returns true
SpendDeductsRefusesOrRejects ==
    [][\A r \in Resource, a \in SpendAmounts :
          (IsCall("spendResource") /\ SpendResourceCall(r, a)) =>
          IF RLess(I(resources[r]), a)
          THEN /\ result'.ret = False
               /\ result'.err = ""
               /\ resources' = resources
               /\ dirty' = dirty
          ELSE IF ~nonNegativeIntegerSchema(a)
          THEN /\ result'.err = "validation"
               /\ resources' = resources
               /\ dirty' = dirty
          ELSE /\ REq(I(resources'[r]), RAdd(I(resources[r]), R(-a.n, a.d)))
               /\ \A other \in Resource \ {r} : resources'[other] = resources[other]
               /\ dirty' = dirty \cup {"resources"}
               /\ result'.ret = True
               /\ result'.err = ""]_vars

\* an amount within the balance that is no non-negative integer has been
\* refused with an error, the balance being what it was
SpendRejected ==
    /\ result.call = "spendResource"
    /\ result.arg = "energy"
    /\ result.err = "validation"
    /\ resources.energy = 1

(***************************************************************************)
(* The composition of multipliers.  The sources are drawn: the unlocked    *)
(* achievements, the levels of the upgrades and the list of active bonuses *)
(* are whatever a snapshot may hold.                                       *)
(***************************************************************************)
\* timed bonuses of the content, all on one key
ComposedBonuses ==
    {[type |-> "multiplier", target |-> "reputationGain", value |-> R(4, 5), duration |-> 1],
     [type |-> "multiplier", target |-> "reputationGain", value |-> R(6, 5), duration |-> 1],
     [type |-> "multiplier", target |-> "reputationGain", value |-> R(3, 2), duration |-> 1]}

\* the lists of at most MaxBonuses bonuses, each expiring a second after
\* the start
BonusLists ==
    UNION {[1..n -> {[bonus |-> b, expiresAt |-> StartTime + 1000] : b \in ComposedBonuses}]
              : n \in 0..MaxBonuses}

InitCompose ==
    /\ now = StartTime
    /\ resources = InitialResources
    /\ hiredWorkers = EmptyMap
    /\ operationsFinished = EmptyMap
    /\ operationsProgress = EmptyMap
    /\ activeBonuses \in BonusLists
    /\ tick = 0
    /\ timeoutId = 0
    /\ timeouts = {}
    /\ unlockedArticles = {}
    /\ level = InitialLevel
    /\ unlockedUpgrades \in {EmptyMap} \cup {[u \in {id} |-> 1] : id \in DOMAIN Upgrades}
    /\ achievements \in
          {[InitialAchievements EXCEPT !.unlockedAchievements = A] :
              A \in SUBSET DOMAIN Achievements}
    /\ prestige \in
          {InitialPrestige} \cup
          {[InitialPrestige EXCEPT !.purchasedUpgrades = [u \in {id} |-> lv]] :
              id \in DOMAIN PrestigeUpgrades, lv \in {1}}
    /\ totalPlaytimeSeconds = 0
    /\ running = FALSE
    /\ loopTimers = << >>
    /\ syncState = "idle"
    /\ lastSave = 0
    /\ dirty = {}
    /\ storage = NoItem
    /\ flows = << >>
    /\ result = NoCall

\* the keys asked for: one for every source
ComposedKeys == {"reputationGain", "moneyGain", "operationDurationReduction"}

NextCompose == \E key \in ComposedKeys : GetMultipliersCall(key)

SpecCompose == InitCompose /\ [][NextCompose]_vars

\* the factors of the four sources for key k, in the order of getMultipliers
SourceFactors(k) ==
    << achievementsMultipliers(Cur)[k], upgradesMultipliers(Cur)[k],
       prestigeMultipliers(Cur)[k], operationsMultipliers(Cur)[k] >>

\* the values of the bonuses of a list that multiply key k, in list order
BonusValues(bonuses, k) ==
    LET hits == SelectSeq(bonuses, LAMBDA ab : ab.bonus.type = "multiplier"
                                               /\ ab.bonus.target = k)
    IN  [i \in 1..Len(hits) |-> hits[i].bonus.value]

\* q reordered by the permutation p of its indices
Reordered(q, p) == [i \in 1..Len(q) |-> q[p[i]]]

\* the key a finished getMultipliers call was about
Composed(k) == result.call = "getMultipliers" /\ result.arg = k

\* the binary64 values of a sequence of literals
Literals(q) == [i \in 1..Len(q) |-> F64Of(RNorm(q[i]))]

\* the number a list of bonuses gives key k, as the code computes it
BonusProduct(bonuses, k) == operationsMultipliersF64(bonuses)[k]

\* C25 as stated, of the numbers the code computes: the effective multiplier
\* of a key is the same whichever order the four sources are multiplied in
\* and whichever order the active bonuses stand in on the list
ProductOrderFree ==
    \A k \in gainMultipliers :
        Composed(k) =>
            /\ \A p \in Permutations(1..4) :
                  F64Product(Reordered(SourceFactorsF64(Cur, k), p))
                      = getMultipliersF64(Cur, k)
            /\ \A p \in Permutations(1..Len(activeBonuses)) :
                  BonusProduct(Reordered(activeBonuses, p), k)
                      = BonusProduct(activeBonuses, k)

\* C25, amended: the effective multiplier of a key is the product of the
\* factors of the four sources, a source without anything for the key
\* giving 1, and the factor of the active bonuses is the product of their
\* values for the key; as exact numbers these products do not depend on the
\* order of the sources or of the bonuses; the numbers the code computes,
\* rounded at every multiplication, agree between two orders of the bonuses
\* whenever no multiplication of either order rounds
ProductOfSources ==
    \A k \in gainMultipliers :
        Composed(k) =>
            /\ result.ret = NumV(RNorm(RProduct(SourceFactors(k))))
            /\ \A p \in Permutations(1..4) :
                  REq(RProduct(Reordered(SourceFactors(k), p)), getMultipliers(Cur, k))
            /\ REq(operationsMultipliers(Cur)[k], RProduct(BonusValues(activeBonuses, k)))
            /\ \A p \in Permutations(1..Len(activeBonuses)) :
                  LET other == Reordered(activeBonuses, p) IN
                  /\ REq(operationsMultipliers([Cur EXCEPT !.activeBonuses = other])[k],
                         operationsMultipliers(Cur)[k])
                  /\ \/ BonusProduct(other, k) = BonusProduct(activeBonuses, k)
                     \/ F64ProductRounds(Literals(BonusValues(activeBonuses, k)))
                     \/ F64ProductRounds(Literals(BonusValues(other, k)))
            /\ BonusValues(activeBonuses, k) = << >> =>
                  /\ operationsMultipliers(Cur)[k] = I(1)
                  /\ BonusProduct(activeBonuses, k) = F64Of(I(1))
            /\ unlockedUpgrades = EmptyMap => upgradesMultipliers(Cur)[k] = I(1)
            /\ achievements.unlockedAchievements = {} =>
                  achievementsMultipliers(Cur)[k] = I(1)
            /\ prestige.purchasedUpgrades = EmptyMap => prestigeMultipliers(Cur)[k] = I(1)

\* reputationGain with the achievement (2) and the bonuses 4/5, 6/5 and 3/2
\* in that order: 72/25
ReputationGainComposed ==
    /\ Composed("reputationGain")
    /\ "firstOp" \in achievements.unlockedAchievements
    /\ BonusValues(activeBonuses, "reputationGain") = << R(4, 5), R(6, 5), R(3, 2) >>
    /\ result.ret = NumV(R(72, 25))

(***************************************************************************)
(* stop() and the progress it is to save                                   *)
(***************************************************************************)
\* C31: stop() saves the progress: a stop() called with a dirty flag set and
\* the gate idle starts a save that writes a snapshot of the state at the
\* call (the completing save then clears the dirty flags)
StopSavesProgress ==
    [][(/\ IsCall("stop")
        /\ StopCall
        /\ dirty # {}
        /\ syncState = "idle") =>
          /\ syncState' = "saving"
          /\ flows' # << >>
          /\ storage' = Item(stringify(getSnapshot(Cur, now)))]_vars

\* the game was stopped two rounds in, less than a save interval after the
\* save of the first round: nothing was written, the flags stay set and the
\* stored snapshot is one round behind
StoppedWithoutSaving ==
    /\ result.call = "stop"
    /\ ~running
    /\ syncState = "idle"
    /\ flows = << >>
    /\ dirty # {}
    /\ lastSave = StartTime
    /\ now - lastSave < localSaveInterval
    /\ totalPlaytimeSeconds = 2 * gameRoundInterval
    /\ storage.item
    /\ storage # Item(stringify(getSnapshot(Cur, lastSave)))

(***************************************************************************)
(* GameStore.reset()                                                       *)
(***************************************************************************)
GameResetCall == Call("GameStore.reset", "", gameReset(Cur, now, TRUE))

NextGameReset ==
    \/ TickLife
    \/ LoopFire
    \/ StartCall
    \/ AddResourceCall("energy", I(6))
    \/ GameResetCall
    \/ SaveResume

SpecGameReset == Init /\ [][NextGameReset]_vars

\* C32: GameStore.reset() called with the gate idle returns with the loop not
\* running, every participating store in its initial state and the storage
\* entry deleted
GameResetClears ==
    [][(/\ IsCall("GameStore.reset")
        /\ GameResetCall
        /\ syncState = "idle") =>
          /\ result'.err = ""
          /\ ~running'
          /\ \A r \in Resource : resources'[r] = 0
          /\ operationsProgress' = EmptyMap
          /\ operationsFinished' = EmptyMap
          /\ activeBonuses' = << >>
          /\ hiredWorkers' = EmptyMap
          /\ unlockedArticles' = {}
          /\ level' = InitialLevel
          /\ unlockedUpgrades' = EmptyMap
          /\ achievements' = InitialAchievements
          /\ prestige' = InitialPrestige
          /\ totalPlaytimeSeconds' = 0
          /\ storage' = NoItem]_vars

\* reset() was called with the gate idle and unsaved energy, before any round
\* had run: its stop() began a save, its SyncStore.reset() was refused, and the
\* energy is still there
GameResetRefused ==
    /\ result.call = "GameStore.reset"
    /\ result.err = "Cannot reset while state is not idle"
    /\ ~running
    /\ syncState = "saving"
    /\ totalPlaytimeSeconds = 0
    /\ resources.energy > 0
    /\ storage.item

(***************************************************************************)
(* conductOperation on an operation whose reward has not been claimed      *)
(***************************************************************************)
NextConduct ==
    \/ TickLife
    \/ Wake
    \/ AddResourceCall("energy", I(6))
    \/ \E id \in ActIds : ConductOperationCall(id)
    \/ \E id \in ActIds : ClaimOperationCall(id)

SpecConduct == Init /\ [][NextConduct]_vars

\* C33: conductOperation(op) never succeeds while op is Claimable, so a
\* conduct never replaces a progress entry whose reward is still to be claimed
ConductKeepsUnclaimed ==
    [][\A id \in ActIds :
          (/\ IsCall("conductOperation")
           /\ ConductOperationCall(id)
           /\ getOperationPhase(progressOf(Cur, id), now) = "claimable") =>
             /\ result'.err # ""
             /\ operationsProgress' = operationsProgress]_vars

\* DIVE alone was conducted, its wake fired when it became claimable, it was
\* never claimed, and a conduct has just succeeded and started it anew: the
\* reward of the first conduct is gone
UnclaimedDiveReplaced ==
    /\ result.call = "conductOperation"
    /\ result.arg = "dive"
    /\ result.err = ""
    /\ DOMAIN operationsProgress = {"dive"}
    /\ operationsProgress["dive"].claimableAt = now + 2000
    /\ tick >= 1
    /\ Get(operationsFinished, "dive", 0) = 0
    /\ resources.output = 0

\* C34: a claimOperation that fails leaves the completion counter, the
\* resource counters, the active bonuses and the progress entry as they were
FailedClaimChangesNothing ==
    [][(/\ IsCall("claimOperation")
        /\ ClaimSalvage
        /\ result'.err # "") =>
          /\ operationsFinished' = operationsFinished
          /\ resources' = resources
          /\ activeBonuses' = activeBonuses
          /\ operationsProgress' = operationsProgress]_vars

\* the third claim of the salvage failed on the article the codex does not
\* have: it is counted and rewarded, its bonus is on the list, the tracker
\* knows of two claims, and the salvage is still claimable
FailedClaimRewarded ==
    /\ result.call = "claimOperation"
    /\ result.err = "Article not found"
    /\ Get(operationsFinished, "salvage", 0) = 3
    /\ achievements.operationsCompleted = 2
    /\ resources.reputation >= 3
    /\ resources.money >= 3
    /\ activeBonuses # << >>
    /\ activeBonuses[Len(activeBonuses)].expiresAt = now + 1000
    /\ getOperationPhase(progressOf(Cur, "salvage"), now) = "claimable"

(***************************************************************************)
(* The chains of game-loop ticks                                           *)
(***************************************************************************)
\* C35: whatever start() and stop() calls and timer firings have taken place,
\* at most one game-loop tick is pending
SingleLoopTick == Len(loopTimers) <= 1

\* start(), stop() and start() again within one round interval: two ticks are
\* pending for a running game, and round() has run twice at the same instant
TwoLoopChains ==
    /\ result.call = "start"
    /\ running
    /\ Len(loopTimers) = 2
    /\ loopTimers[1] = now + gameRoundInterval
    /\ loopTimers[2] = now + gameRoundInterval
    /\ totalPlaytimeSeconds = 2 * gameRoundInterval

(***************************************************************************)
(* Mutations made while a save is suspended                                *)
(***************************************************************************)
\* C36: no update is lost by dirty tracking: whenever the gate is idle and no
\* dirty flag is set, the state in memory is the state of the last snapshot
\* written to storage (the initial state when nothing was ever written)
CleanMeansSaved ==
    (syncState = "idle" /\ dirty = {}) =>
        IF storage.item
        THEN storage = Item(stringify(getSnapshot(Cur, lastSave)))
        ELSE resources = InitialResources

\* energy was added after save() had written its snapshot and before it
\* resumed: the save completed and cleared every flag, the snapshot in storage
\* has 6 energy and the memory has 12
UpdateLostBySave ==
    /\ result.call = "save"
    /\ result.err = ""
    /\ syncState = "idle"
    /\ flows = << >>
    /\ dirty = {}
    /\ resources.energy = 12
    /\ storage = Item(stringify(getSnapshot([Cur EXCEPT !.resources.energy = 6], lastSave)))

(***************************************************************************)
(* The dirty flags after SyncStore.reset()                                 *)
(***************************************************************************)
\* C37: a SyncStore.reset() that succeeds leaves the dirty set empty
ResetLeavesClean ==
    [][(/\ IsCall("reset")
        /\ ResetCall
        /\ result'.err = "") => dirty' = {}]_vars

\* after a reset() that kept the flags of the play before it, and with no
\* mutation since, save() has written the blank state back to the storage
\* entry the reset had deleted
BlankStateSaved ==
    /\ result.call = "save"
    /\ result.ret = Pending
    /\ syncState = "saving"
    /\ dirty # {}
    /\ resources = InitialResources
    /\ operationsProgress = EmptyMap
    /\ operationsFinished = EmptyMap
    /\ achievements = InitialAchievements
    /\ storage = Item(stringify(getSnapshot(Cur, now)))

(***************************************************************************)
(* Timed bonuses past their expiry                                         *)
(***************************************************************************)
\* C38: a bonus whose expiresAt has been reached contributes nothing to the
\* multipliers of a claim: the reputation reward of a claimed salvage is scaled
\* by the bonuses that have not expired at the time of the claim, whether or
\* not a round has removed the others from the list
ExpiredBonusIgnored ==
    [][(/\ IsCall("claimOperation")
        /\ ClaimSalvage
        /\ result'.err = "") =>
          resources'.reputation = resources.reputation
              + Ceil(RMul(I(Operations["salvage"].rewards.reputation),
                          getMultipliers(expireBonuses(Cur, now), "reputationGain")))]_vars

\* the second claim of the salvage, made when the bonus of the first had
\* expired and no round had run, was paid double
ExpiredBonusPaid ==
    /\ result.call = "claimOperation"
    /\ result.err = ""
    /\ Get(operationsFinished, "salvage", 0) = 2
    /\ Len(activeBonuses) = 2
    /\ activeBonuses[1].expiresAt <= now
    /\ resources.reputation = 3

(***************************************************************************)
(* canAffordOperation against conductOperation                             *)
(***************************************************************************)
CanAffordOperationCall(id) ==
    Call("canAffordOperation", id,
         Returns(Cur, BoolV(canAffordOperation(Cur, Operations[id]))))

NextAfford ==
    \/ Tick
    \/ Wake
    \/ AddGameResource
    \/ \E id \in PlayedIds : ConductOperationCall(id)
    \/ \E id \in PlayedIds : ClaimOperationCall(id)
    \/ \E id \in PlayedIds : CanAffordOperationCall(id)

SpecAfford == Init /\ [][NextAfford]_vars

\* op is not blocked by its cooldown
CooledDown(id) ==
    id \in DOMAIN operationsProgress => operationsProgress[id].cooldownTill <= now

\* C39: canAffordOperation(op) changes nothing, and for an operation not
\* blocked by its cooldown conductOperation(op) fails for insufficient
\* resources exactly when canAffordOperation(op) is false
CanAffordAgreesWithConduct ==
    [][\A id \in PlayedIds :
          /\ (IsCall("canAffordOperation") /\ CanAffordOperationCall(id)) =>
                Cur' = Cur
          /\ (/\ IsCall("conductOperation")
              /\ ConductOperationCall(id)
              /\ CooledDown(id)) =>
                (canAffordOperation(Cur, Operations[id])
                    <=> result'.err # "Insufficient resources")]_vars

\* with the bonus of a claimed survey halving the costs, DIVE has just been
\* conducted from at most 6 energy, which canAffordOperation holds to be too
\* little (5 * 1.4 = 7)
ConductedUnaffordable ==
    /\ result.call = "conductOperation"
    /\ result.arg = "dive"
    /\ result.err = ""
    /\ activeBonuses # << >>
    /\ resources.energy = 2
    /\ ~canAffordOperation([Cur EXCEPT !.resources.energy = 6], Operations["dive"])

(***************************************************************************)
(* The wake timer and the transitions ahead                                *)
(***************************************************************************)
\* an operation that is claimed on the spot (duration 0) and cools down for a
\* second; its first claim asks for an article the codex does not have
Glint ==
    [id |-> "glint", rarity |-> "common", duration |-> 0, cooldown |-> 1,
     cost |-> [energy |-> 5],
     rewards |-> [reputation |-> 1, output |-> 0, money |-> 0, bonus |-> NoBonus],
     articlesUnlocks |-> << [level |-> 1, id |-> "lost"] >>]

ConductGlint ==
    /\ Get(operationsFinished, "glint", 0) < MaxClaims
    /\ Call("conductOperation", "glint", conductOperation(Cur, Glint, now))

NextWake ==
    \/ TickLife
    \/ Wake
    \/ AddResourceCall("energy", I(6))
    \/ ConductOperationCall("trawl")
    \/ ClaimOperationCall("trawl")
    \/ ConductGlint

SpecWake == Init /\ [][NextWake]_vars

\* the claimableAt and cooldownTill values that are ahead of now
FutureTransitions ==
    LET entries == {operationsProgress[id] : id \in DOMAIN operationsProgress}
    IN  {p.claimableAt : p \in {e \in entries : e.claimableAt > now}}
        \cup {p.cooldownTill : p \in {e \in entries : e.cooldownTill > now}}

\* C40: whenever some progress entry has a claimableAt or cooldownTill ahead
\* of now, a wake timer is pending that fires no later than the earliest of
\* these values
WakeCoversEarliest ==
    FutureTransitions # {} => \E f \in timeouts : f <= Min(FutureTransitions)

\* the glint was conducted and its claim on the spot failed: its entry has a
\* cooldownTill a second ahead and no wake timer is pending
GlintLeftUnscheduled ==
    /\ result.call = "conductOperation"
    /\ result.arg = "glint"
    /\ result.err = "Article not found"
    /\ operationsProgress["glint"] = [claimableAt |-> now, cooldownTill |-> now + 1000]
    /\ timeouts = {}
    /\ timeoutId = 0
====
